---- MODULE Spec2Model ----
(***************************************************************************)
(* A model of the SOLVE-IT knowledge base library                          *)
(* (src/solve_it_library/solveit_library.py, class KnowledgeBase).         *)
(*                                                                         *)
(* Identifiers are modelled as naturals; Python's ascending string order   *)
(* on ids is the order < on them.  A Python dict is modelled as the        *)
(* sequence of its values in insertion order (every record carries its     *)
(* key in the field id); a reverse index, whose key order no operation     *)
(* depends on, is a function from its key set to id sequences.  Text is a  *)
(* sequence of one-character strings.                                      *)
(***************************************************************************)
EXTENDS Integers, Sequences, FiniteSets, TLC

VARIABLES
    pc,                       \* position of the constructor / life cycle of the instance
    error,                    \* exception raised by the constructor or by the last call
    disk,                     \* the data directory the instance reads
    edits,                    \* number of changes made to the disk after construction
    techniques,               \* self.techniques
    weaknesses,               \* self.weaknesses
    mitigations,              \* self.mitigations
    weakness_to_techniques,   \* self._weakness_to_techniques
    mitigation_to_weaknesses, \* self._mitigation_to_weaknesses
    mitigation_to_techniques, \* self._mitigation_to_techniques
    objective_mappings,       \* self.objective_mappings
    current_mapping_name,     \* self.current_mapping_name
    extension_modules,        \* self.extension_modules, in insertion order
    global_config,            \* self.global_config
    failed_file,              \* the record file on which the loader raised, if any
    ret                       \* the last call on the instance and what it returned

vars == <<pc, error, disk, edits, techniques, weaknesses, mitigations,
          weakness_to_techniques, mitigation_to_weaknesses,
          mitigation_to_techniques, objective_mappings, current_mapping_name,
          extension_modules, global_config, failed_file, ret>>

-----------------------------------------------------------------------------
(* Bounds of the model *)

\* total number of forward references (technique->weakness and
\* weakness->mitigation list entries) in the record files of a data directory
MaxRefs == 3

\* number of changes made to the data directory once the instance exists
MaxEdits == 1

TechniqueIds == {1, 2}
WeaknessIds == {1, 2}
MitigationIds == {1, 2}

None == "None"

-----------------------------------------------------------------------------
(* Generic helpers: Python list and dict operations *)

\* sum(len(l) for l in lists)
RECURSIVE SumLen(_)
SumLen(lists) ==
    IF lists = <<>> THEN 0 ELSE Len(Head(lists)) + SumLen(Tail(lists))

\* x in list
InList(x, list) == \E i \in 1..Len(list) : list[i] = x

\* the set of the elements of a list
Elems(list) == {list[i] : i \in 1..Len(list)}

\* all sequences over S of length at most n
SeqsUpTo(S, n) == UNION {[1..k -> S] : k \in 0..n}

\* insertion of x into an ascending list, after the elements equal to it
RECURSIVE InsertSorted(_, _)
InsertSorted(x, list) ==
    IF list = <<>> THEN <<x>>
    ELSE IF x < Head(list) THEN <<x>> \o list
    ELSE <<Head(list)>> \o InsertSorted(x, Tail(list))

\* list.sort() / sorted(list): ascending, duplicates kept
RECURSIVE Sorted(_)
Sorted(list) ==
    IF list = <<>> THEN <<>>
    ELSE InsertSorted(list[Len(list)], Sorted(SubSeq(list, 1, Len(list) - 1)))

\* sorted(list(s)) for a set s of ids
RECURSIVE SortedSet(_)
SortedSet(S) ==
    IF S = {} THEN <<>>
    ELSE LET m == CHOOSE x \in S : \A y \in S : x <= y
         IN <<m>> \o SortedSet(S \ {m})

\* the keys of a dict, in insertion order
Keys(d) == [i \in 1..Len(d) |-> d[i].id]

\* key in d
HasKey(d, key) == \E i \in 1..Len(d) : d[i].id = key

\* d[key] for a key of d
Lookup(d, key) == d[CHOOSE i \in 1..Len(d) : d[i].id = key]

\* d[rec.id] = rec: a new key is appended, an existing key keeps its place
DictPut(d, rec) ==
    IF HasKey(d, rec.id)
    THEN [i \in 1..Len(d) |-> IF d[i].id = rec.id THEN rec ELSE d[i]]
    ELSE Append(d, rec)

\* idx.get(key, [])
IndexGet(idx, key) == IF key \in DOMAIN idx THEN idx[key] ELSE <<>>

\* a bucket that is assigned instead of appended to: idx[key] = [val]
IndexAppend_Overwrite(idx, key, val) ==
    [k \in DOMAIN idx \cup {key} |-> IF k = key THEN <<val>> ELSE idx[k]]

\* if key not in idx: idx[key] = []; idx[key].append(val)
IndexAppend(idx, key, val) ==
    IF key \in DOMAIN idx
    THEN [idx EXCEPT ![key] = Append(@, val)]
    ELSE [k \in DOMAIN idx \cup {key} |-> IF k = key THEN <<val>> ELSE idx[k]]

EmptyIndex == [k \in {} |-> <<>>]

-----------------------------------------------------------------------------
(* Records and record files *)

\* text of the name and description fields where the text does not matter
NoText == <<>>

\* what Technique.model_validate(data).model_dump() yields for a technique file
TechniqueRec(i, ws) ==
    [id |-> i, name |-> NoText, description |-> NoText, weaknesses |-> ws,
     subtechniques |-> <<>>, extension_data |-> {}]

\* what Weakness.model_validate(data).model_dump() yields for a weakness file
WeaknessRec(i, ms) ==
    [id |-> i, name |-> NoText, description |-> NoText, mitigations |-> ms,
     extension_data |-> {}]

\* what Mitigation.model_validate(data).model_dump() yields for a mitigation file
MitigationRec(i) ==
    [id |-> i, name |-> NoText, description |-> NoText, extension_data |-> {}]

NoRec == [id |-> 0]

\* a file of a record directory: "ok" parses and validates to rec; "invalid"
\* parses but fails model_validate; "unparseable" makes json.load raise;
\* "unreadable" makes open/read raise; "other" has no .json suffix
FileKinds == {"ok", "invalid", "unparseable", "unreadable", "other"}
BadKinds == {"invalid", "unparseable", "unreadable"}

OkFile(rec) == [kind |-> "ok", rec |-> rec]
OddFile(kind) == [kind |-> kind, rec |-> NoRec]

\* a record directory: exists is os.path.isdir(path), files is os.listdir(path)
\* in the order the file system enumerates it
Dir(files) == [exists |-> TRUE, files |-> files]
MissingDir == [exists |-> FALSE, files |-> <<>>]

-----------------------------------------------------------------------------
(* _load_json_files *)

\* a loop that logs a file it cannot load and goes on with the next one
RECURSIVE LoadLoop_SkipBad(_, _, _)
LoadLoop_SkipBad(files, i, loaded_data) ==
    IF i > Len(files) THEN [data |-> loaded_data, raised |-> 0]
    ELSE IF files[i].kind # "ok" THEN LoadLoop_SkipBad(files, i + 1, loaded_data)
    ELSE LoadLoop_SkipBad(files, i + 1, DictPut(loaded_data, files[i].rec))

\* The loop over os.listdir(directory_path), files in enumeration order.
\* Result: [data |-> loaded_data, raised |-> index of the file on which
\* SOLVEITDataError was raised, 0 if none].  A ValidationError is turned into
\* SOLVEITDataError inside the try block, which the trailing
\* "except Exception" catches and raises again as SOLVEITDataError.
RECURSIVE LoadLoop(_, _, _)
LoadLoop(files, i, loaded_data) ==
    IF i > Len(files) THEN [data |-> loaded_data, raised |-> 0]
    ELSE IF files[i].kind = "other" THEN LoadLoop(files, i + 1, loaded_data)
    ELSE IF files[i].kind \in BadKinds THEN [data |-> loaded_data, raised |-> i]
    ELSE LoadLoop(files, i + 1, DictPut(loaded_data, files[i].rec))

\* a loader for which a missing directory is an error like any other
load_json_files_Strict(dir) ==
    IF ~dir.exists THEN [data |-> <<>>, raised |-> 1]
    ELSE LET r == LoadLoop(dir.files, 1, <<>>)
         IN IF r.raised > 0 THEN [data |-> <<>>, raised |-> r.raised] ELSE r

\* _load_json_files(directory_path, model_class): a missing directory loads
\* as the empty dict; on a raise no dict is returned
load_json_files(dir) ==
    IF ~dir.exists THEN [data |-> <<>>, raised |-> 0]
    ELSE LET r == LoadLoop(dir.files, 1, <<>>)
         IN IF r.raised > 0 THEN [data |-> <<>>, raised |-> r.raised] ELSE r

-----------------------------------------------------------------------------
(* _build_reverse_indices *)

\* inner loop: for weakness_id in technique.get('weaknesses', [])
RECURSIVE AppendRefs(_, _, _)
AppendRefs(idx, refs, owner) ==
    IF refs = <<>> THEN idx
    ELSE AppendRefs(IndexAppend(idx, Head(refs), owner), Tail(refs), owner)

\* for technique_id, technique in self.techniques.items(): ... append
RECURSIVE BuildWeaknessToTechniques(_, _)
BuildWeaknessToTechniques(techs, idx) ==
    IF techs = <<>> THEN idx
    ELSE BuildWeaknessToTechniques(Tail(techs),
             AppendRefs(idx, Head(techs).weaknesses, Head(techs).id))

\* for weakness_id, weakness in self.weaknesses.items(): ... append
RECURSIVE BuildMitigationToWeaknesses(_, _)
BuildMitigationToWeaknesses(weaks, idx) ==
    IF weaks = <<>> THEN idx
    ELSE BuildMitigationToWeaknesses(Tail(weaks),
             AppendRefs(idx, Head(weaks).mitigations, Head(weaks).id))

\* technique_ids.update(w2t.get(weakness_id, [])) over the weakness ids of one
\* mitigation; technique_ids is a set
TechniqueIdSet(w2t, weakness_ids) ==
    UNION {Elems(IndexGet(w2t, weakness_ids[i])) : i \in 1..Len(weakness_ids)}

\* the technique lists of the weaknesses of one mitigation, concatenated
RECURSIVE TechniqueIdList(_, _)
TechniqueIdList(w2t, weakness_ids) ==
    IF weakness_ids = <<>> THEN <<>>
    ELSE IndexGet(w2t, Head(weakness_ids))
             \o TechniqueIdList(w2t, Tail(weakness_ids))

\* the index built with a list, neither deduplicated nor sorted
BuildMitigationToTechniques_Unsorted(m2w, w2t) ==
    [m \in DOMAIN m2w |-> TechniqueIdList(w2t, m2w[m])]

\* self._mitigation_to_techniques[mitigation_id] = sorted(list(technique_ids))
BuildMitigationToTechniques(m2w, w2t) ==
    [m \in DOMAIN m2w |-> SortedSet(TechniqueIdSet(w2t, m2w[m]))]

\* for key in idx: idx[key].sort()
SortIndex(idx) == [k \in DOMAIN idx |-> Sorted(idx[k])]

\* an index that is not reset before it is rebuilt
InitialIndex_Keep(old) == old

\* "Initialize empty indices": self._weakness_to_techniques = {} etc.
InitialIndex(old) == EmptyIndex

\* _build_reverse_indices(), run on an instance whose indices are old: the
\* three indices afterwards.  The mitigation->techniques index is computed
\* from the two other indices before these are sorted.
build_reverse_indices(techs, weaks, old) ==
    LET w2t == BuildWeaknessToTechniques(techs, InitialIndex(old.w2t))
        m2w == BuildMitigationToWeaknesses(weaks, InitialIndex(old.m2w))
    IN [w2t |-> SortIndex(w2t),
        m2w |-> SortIndex(m2w),
        m2t |-> BuildMitigationToTechniques(m2w, w2t)]

NoIndices == [w2t |-> EmptyIndex, m2w |-> EmptyIndex, m2t |-> EmptyIndex]

-----------------------------------------------------------------------------
(* load_objective_mapping *)

DEFAULT_MAPPING_FILE == "solve-it.json"
MappingNames == {"solve-it.json", "carrier.json"}

\* a mapping file of the data directory: "absent" (os.path.isfile is false),
\* "broken" (open or json.load raises), "notlist" (parses, top level is no
\* list) or "list" with its entries; an entry validates as an Objective or not
MappingFile(state, entries) == [state |-> state, entries |-> entries]
Entry(valid, name, techs) == [valid |-> valid, name |-> name, techniques |-> techs]

\* a loop over mapping_data that ends at the first entry that fails
\* Objective.model_validate
RECURSIVE ValidatedObjectives_StopAtInvalid(_)
ValidatedObjectives_StopAtInvalid(entries) ==
    IF entries = <<>> THEN <<>>
    ELSE IF Head(entries).valid
         THEN <<[name |-> Head(entries).name,
                 techniques |-> Head(entries).techniques]>>
              \o ValidatedObjectives_StopAtInvalid(Tail(entries))
         ELSE <<>>

\* the loop over mapping_data: entries failing Objective.model_validate are skipped
RECURSIVE ValidatedObjectives(_)
ValidatedObjectives(entries) ==
    IF entries = <<>> THEN <<>>
    ELSE IF Head(entries).valid
         THEN <<[name |-> Head(entries).name,
                 techniques |-> Head(entries).techniques]>>
              \o ValidatedObjectives(Tail(entries))
         ELSE ValidatedObjectives(Tail(entries))

\* a load that makes the mapping current even when it fails
load_objective_mapping_SetsCurrent(files, maps, cur, mapping_filename) ==
    IF files[mapping_filename].state = "list"
    THEN [maps |-> [maps EXCEPT ![mapping_filename] =
                       <<TRUE, ValidatedObjectives(files[mapping_filename].entries)>>],
          cur |-> mapping_filename, ok |-> TRUE]
    ELSE [maps |-> maps, cur |-> mapping_filename, ok |-> FALSE]

\* load_objective_mapping(mapping_filename) applied to the pair
\* (objective_mappings, current_mapping_name): the pair afterwards and the
\* boolean returned
load_objective_mapping(files, maps, cur, mapping_filename) ==
    IF files[mapping_filename].state = "list"
    THEN [maps |-> [maps EXCEPT ![mapping_filename] =
                       <<TRUE, ValidatedObjectives(files[mapping_filename].entries)>>],
          cur |-> mapping_filename, ok |-> TRUE]
    ELSE [maps |-> maps, cur |-> cur, ok |-> FALSE]

\* objective_mappings is a function on MappingNames to <<loaded, objectives>>:
\* a name is a key of the dict iff loaded
NoMappings == [n \in MappingNames |-> <<FALSE, <<>> >>]

-----------------------------------------------------------------------------
(* _load_extension_data_for_items *)

ExtensionName == "demo"

\* the record replaced by a dict that holds nothing but the side data
AttachTo_Replace(items, ids) ==
    [i \in 1..Len(items) |->
        IF items[i].id \in ids
        THEN [items[i] EXCEPT !.extension_data = {ExtensionName},
                              !.weaknesses = <<>>]
        ELSE items[i]]

\* items_dict[item_id]['extension_data'][extension_name] = extension_data for
\* every loaded item that has an extension_data.json in the extension folder
AttachTo(items, ids) ==
    [i \in 1..Len(items) |->
        IF items[i].id \in ids
        THEN [items[i] EXCEPT !.extension_data = @ \cup {ExtensionName}]
        ELSE items[i]]

-----------------------------------------------------------------------------
(* Extensions: _load_extensions and call_extension_function *)

\* the functions that extension modules may expose
FunctionNames == {"get_markdown_for_technique", "get_excel_for_technique"}

\* the code of an extension: mark is the text it contributes; for each
\* function name, what its function of that name does:
\*   "missing"  the module has no attribute of that name
\*   "none"     returns None
\*   "raises"   raises an exception
\*   "text"     returns its mark as a string
\*   "blank"    returns the empty string
\*   "write"    writes its mark into the worksheet it is given, returns it
\*   "copy"     returns a new worksheet: the rows of the one it is given and
\*              its mark
Module(mark, markdown, excel) ==
    [mark |-> mark, get_markdown_for_technique |-> markdown,
     get_excel_for_technique |-> excel]

\* an entry of "extensions" in extension_config.json, with what the file
\* system holds for it: folder_path is "none" (no folder_path given),
\* "unresolved" (neither path exists) or "resolved"; code is "absent" (no
\* extension_code.py), "raises" (exec_module raises) or "ok"
ExtensionEntry(name, folder_path, code, module) ==
    [name |-> name, folder_path |-> folder_path, code |-> code,
     module |-> module]

\* _resolve_extension_path(folder_path) is not None
resolve_extension_path(entry) == entry.folder_path = "resolved"

\* _load_extension_module(folder_path, extension_name) returns a module
load_extension_module(entry) ==
    /\ resolve_extension_path(entry)
    /\ entry.code = "ok"

\* a loop over the configured extensions that gives up at the first
\* extension that does not load
RECURSIVE LoadModules_StopAtFailure(_)
LoadModules_StopAtFailure(entries) ==
    IF entries = <<>> THEN <<>>
    ELSE IF entries[1].folder_path # "none" /\ load_extension_module(entries[1])
         THEN <<[name |-> entries[1].name, module |-> entries[1].module]>>
              \o LoadModules_StopAtFailure(Tail(entries))
         ELSE <<>>

\* the "Load each extension module" loop of _load_extensions
RECURSIVE LoadModules(_)
LoadModules(entries) ==
    IF entries = <<>> THEN <<>>
    ELSE IF entries[1].folder_path # "none" /\ load_extension_module(entries[1])
         THEN <<[name |-> entries[1].name, module |-> entries[1].module]>>
              \o LoadModules(Tail(entries))
         ELSE LoadModules(Tail(entries))

\* _load_extensions: extension_modules afterwards. config is "absent" (no
\* extension_config.json), "broken" (json.load raises), "nofields" (no
\* 'extensions' or no 'technique_fields' field) or "list"
load_extensions(extension) ==
    IF extension.config = "list" THEN LoadModules(extension.extensions)
    ELSE <<>>

\* _load_global_config: global_config afterwards; a module whose code raised
\* is a module object without functions
load_global_config(extension) ==
    IF extension.global_config = "absent" THEN None
    ELSE IF extension.global_config = "raises" THEN "module"
    ELSE "shipped"

\* has_extensions(): extension_modules is filled only when extensions are
\* enabled and the configuration was read
has_extensions(modules) == modules # <<>>

\* the values that the functions of extensions return
NoneValue == [type |-> "NoneType"]
Str(text) == [type |-> "str", text |-> text]
Worksheet(n) == [type |-> "Worksheet", sheet |-> n]

\* str(value)
str(value) ==
    IF value.type = "str" THEN value.text
    ELSE IF value.type = "NoneType" THEN <<"N", "o", "n", "e">>
    ELSE <<"<", "W", ">">>

\* getattr(module, function_name)(*args, **kwargs): sheets are the rows of
\* the worksheet objects, and args the worksheet passed, 0 when the function
\* takes none
Apply(module, function_name, sheets, args) ==
    LET kind == module[function_name]
    IN IF kind = "raises"
       THEN [raised |-> TRUE, value |-> NoneValue, sheets |-> sheets]
       ELSE IF kind = "text"
       THEN [raised |-> FALSE, value |-> Str(<<module.mark>>), sheets |-> sheets]
       ELSE IF kind = "blank"
       THEN [raised |-> FALSE, value |-> Str(<<>>), sheets |-> sheets]
       ELSE IF kind = "write" /\ args # 0
       THEN [raised |-> FALSE, value |-> Worksheet(args),
             sheets |-> [sheets EXCEPT ![args] = Append(@, module.mark)]]
       ELSE IF kind = "copy" /\ args # 0
       THEN [raised |-> FALSE, value |-> Worksheet(Len(sheets) + 1),
             sheets |-> Append(sheets, Append(sheets[args], module.mark))]
       ELSE [raised |-> FALSE, value |-> NoneValue, sheets |-> sheets]

\* the state of the loop of call_extension_function before any extension
\* is called: calls lists, for each function called, the extension, the
\* worksheet it was given and what it returned
StartOfCall(sheets) ==
    [raised |-> FALSE, result |-> NoneValue, first_result |-> TRUE,
     sheets |-> sheets, calls |-> <<>>]

\* an iteration that lets the exception of a function end the call: what
\* was accumulated is lost
CallStep_Propagate(acc, entry, function_name, args) ==
    LET r == Apply(entry.module, function_name, acc.sheets, args)
    IN IF entry.module[function_name] = "missing" THEN acc
       ELSE IF r.raised \/ acc.raised
       THEN [acc EXCEPT !.raised = TRUE, !.result = NoneValue]
       ELSE IF r.value.type = "NoneType" THEN [acc EXCEPT !.sheets = r.sheets]
       ELSE IF acc.first_result
       THEN [acc EXCEPT !.result = r.value, !.first_result = FALSE,
                        !.sheets = r.sheets]
       ELSE IF acc.result.type = "str"
       THEN [acc EXCEPT !.result = Str(acc.result.text \o str(r.value)),
                        !.sheets = r.sheets]
       ELSE [acc EXCEPT !.result = r.value, !.sheets = r.sheets]

\* an iteration that puts the string of an extension before those of the
\* extensions called earlier
CallStep_Prepend(acc, entry, function_name, args) ==
    LET r == Apply(entry.module, function_name, acc.sheets, args)
    IN IF entry.module[function_name] = "missing" \/ r.raised THEN acc
       ELSE IF r.value.type = "NoneType" THEN [acc EXCEPT !.sheets = r.sheets]
       ELSE IF acc.first_result
       THEN [acc EXCEPT !.result = r.value, !.first_result = FALSE,
                        !.sheets = r.sheets]
       ELSE IF acc.result.type = "str"
       THEN [acc EXCEPT !.result = Str(str(r.value) \o acc.result.text),
                        !.sheets = r.sheets]
       ELSE [acc EXCEPT !.result = r.value, !.sheets = r.sheets]

\* one iteration of the loop of call_extension_function
CallStep(acc, entry, function_name, args) ==
    LET r == Apply(entry.module, function_name, acc.sheets, args)
        called == Append(acc.calls,
                         [name |-> entry.name, given |-> args,
                          raised |-> r.raised, returned |-> r.value])
    IN IF entry.module[function_name] = "missing" THEN acc
       ELSE IF r.raised THEN [acc EXCEPT !.calls = called]
       ELSE IF r.value.type = "NoneType"
       THEN [acc EXCEPT !.calls = called, !.sheets = r.sheets]
       ELSE IF acc.first_result
       THEN [acc EXCEPT !.result = r.value, !.first_result = FALSE,
                        !.sheets = r.sheets, !.calls = called]
       ELSE IF acc.result.type = "str"
       THEN [acc EXCEPT !.result = Str(acc.result.text \o str(r.value)),
                        !.sheets = r.sheets, !.calls = called]
       ELSE [acc EXCEPT !.result = r.value, !.sheets = r.sheets,
                        !.calls = called]

RECURSIVE CallLoop(_, _, _, _)
CallLoop(acc, modules, function_name, args) ==
    IF modules = <<>> THEN acc
    ELSE CallLoop(CallStep(acc, Head(modules), function_name, args),
                  Tail(modules), function_name, args)

\* call_extension_function(function_name, *args, **kwargs): what it returns,
\* the worksheets afterwards and the calls it made
call_extension_function(modules, function_name, sheets, args) ==
    LET end == CallLoop(StartOfCall(sheets), modules, function_name, args)
    IN IF ~has_extensions(modules)
       THEN [StartOfCall(sheets) EXCEPT !.result = Str(<<>>)]
       ELSE IF end.result.type = "NoneType"
       THEN [end EXCEPT !.result = Str(<<>>)]
       ELSE end

\* add_excel_to_technique(technique_id, excel_worksheet, start_row)
add_excel_to_technique(modules, sheets, excel_worksheet) ==
    LET r == call_extension_function(modules, "get_excel_for_technique",
                                     sheets, excel_worksheet)
    IN IF r.result = Str(<<>>)
       THEN [r EXCEPT !.result = Worksheet(excel_worksheet)]
       ELSE r

-----------------------------------------------------------------------------
(* Queries *)

\* get_technique / get_weakness / get_mitigation are truthy for a loaded id
get_technique(techs, technique_id) == HasKey(techs, technique_id)
get_weakness(weaks, weakness_id) == HasKey(weaks, weakness_id)
get_mitigation(mits, mitigation_id) == HasKey(mits, mitigation_id)

\* the loop that converts ids to full records, skipping ids that do not resolve
RECURSIVE Resolve(_, _)
Resolve(d, ids) ==
    IF ids = <<>> THEN <<>>
    ELSE IF HasKey(d, Head(ids))
         THEN <<Lookup(d, Head(ids))>> \o Resolve(d, Tail(ids))
         ELSE Resolve(d, Tail(ids))

\* get_techniques_for_weakness(weakness_id)
get_techniques_for_weakness(techs, weaks, w2t, weakness_id) ==
    IF ~get_weakness(weaks, weakness_id) THEN <<>>
    ELSE Resolve(techs, IndexGet(w2t, weakness_id))

\* a lookup in the index that does not ask whether the mitigation is loaded
get_weaknesses_for_mitigation_Unguarded(weaks, mits, m2w, mitigation_id) ==
    Resolve(weaks, IndexGet(m2w, mitigation_id))

\* get_weaknesses_for_mitigation(mitigation_id)
get_weaknesses_for_mitigation(weaks, mits, m2w, mitigation_id) ==
    IF ~get_mitigation(mits, mitigation_id) THEN <<>>
    ELSE Resolve(weaks, IndexGet(m2w, mitigation_id))

\* get_techniques_for_mitigation(mitigation_id)
get_techniques_for_mitigation(techs, mits, m2t, mitigation_id) ==
    IF ~get_mitigation(mits, mitigation_id) THEN <<>>
    ELSE Resolve(techs, IndexGet(m2t, mitigation_id))

\* the weaknesses of a technique in ascending order of their ids
get_weaknesses_for_technique_Sorted(techs, weaks, technique_id) ==
    IF ~get_technique(techs, technique_id) THEN <<>>
    ELSE Resolve(weaks,
                 SortedSet(Elems(Lookup(techs, technique_id).weaknesses)))

\* get_weaknesses_for_technique(technique_id)
get_weaknesses_for_technique(techs, weaks, technique_id) ==
    IF ~get_technique(techs, technique_id) THEN <<>>
    ELSE Resolve(weaks, Lookup(techs, technique_id).weaknesses)

\* get_mitigations_for_weakness(weakness_id)
get_mitigations_for_weakness(weaks, mits, weakness_id) ==
    IF ~get_weakness(weaks, weakness_id) THEN <<>>
    ELSE Resolve(mits, Lookup(weaks, weakness_id).mitigations)

\* list_objectives(mapping_name): mapping_name or the current mapping
list_objectives(maps, cur, mapping_name) ==
    LET active_mapping_name == IF mapping_name # None THEN mapping_name ELSE cur
    IN IF \/ active_mapping_name = None
          \/ active_mapping_name \notin DOMAIN maps
          \/ ~maps[active_mapping_name][1]
       THEN <<>>
       ELSE maps[active_mapping_name][2]

\* list_techniques(): sorted(self.techniques.keys())
list_techniques(techs) == SortedSet(Elems(Keys(techs)))

\* the names of the objectives whose technique list holds technique_id
ObjectiveNames(objectives, technique_id) ==
    LET listing == SelectSeq(objectives,
                             LAMBDA obj : InList(technique_id, obj.techniques))
    IN [i \in 1..Len(listing) |-> listing[i].name]

\* the "find parent" loop: the techniques, in the order of list_techniques,
\* whose subtechniques hold technique_id; the loop stops at the first
ParentsOf(techs, technique_id) ==
    SelectSeq(list_techniques(techs),
              LAMBDA t_id : InList(technique_id,
                                   Lookup(techs, t_id).subtechniques))

\* a fallback that goes on to the parent of the parent when no objective
\* lists the parent
get_objectives_for_technique_Ancestors(techs, maps, cur, technique_id, mapping_name) ==
    LET objectives == list_objectives(maps, cur, mapping_name)
        names(id) == ObjectiveNames(objectives, id)
        up(id) == IF ParentsOf(techs, id) = <<>> THEN id
                  ELSE Head(ParentsOf(techs, id))
    IN IF names(technique_id) # <<>> THEN names(technique_id)
       ELSE IF names(up(technique_id)) # <<>> THEN names(up(technique_id))
       ELSE names(up(up(technique_id)))

\* a fallback that goes through the parents until an objective lists one
get_objectives_for_technique_AnyParent(techs, maps, cur, technique_id, mapping_name) ==
    LET objectives == list_objectives(maps, cur, mapping_name)
        objective_names == ObjectiveNames(objectives, technique_id)
        listed == SelectSeq(ParentsOf(techs, technique_id),
                            LAMBDA p : ObjectiveNames(objectives, p) # <<>>)
    IN IF objectives = <<>> THEN <<>>
       ELSE IF objective_names # <<>> THEN objective_names
       ELSE IF listed = <<>> THEN <<>>
       ELSE ObjectiveNames(objectives, Head(listed))

\* get_objectives_for_technique(technique_id, mapping_name)
get_objectives_for_technique(techs, maps, cur, technique_id, mapping_name) ==
    LET objectives == list_objectives(maps, cur, mapping_name)
        objective_names == ObjectiveNames(objectives, technique_id)
        parents == ParentsOf(techs, technique_id)
    IN IF objectives = <<>> THEN <<>>
       ELSE IF objective_names # <<>> THEN objective_names
       ELSE IF parents = <<>> THEN <<>>
       ELSE ObjectiveNames(objectives, Head(parents))

\* the loop "if mitigation_id not in list: list.append(mitigation_id)"
RECURSIVE AppendNew(_, _)
AppendNew(list, ids) ==
    IF ids = <<>> THEN list
    ELSE AppendNew(IF InList(Head(ids), list) THEN list
                   ELSE Append(list, Head(ids)),
                   Tail(ids))

\* the loop of get_mit_list_for_technique over the weakness ids
RECURSIVE MitListLoop(_, _, _)
MitListLoop(list, weaks, weakness_ids) ==
    IF weakness_ids = <<>> THEN list
    ELSE MitListLoop(IF get_weakness(weaks, Head(weakness_ids))
                     THEN AppendNew(list,
                              Lookup(weaks, Head(weakness_ids)).mitigations)
                     ELSE list,
                     weaks, Tail(weakness_ids))

\* the mitigation ids of a technique in ascending order
get_mit_list_for_technique_Sorted(techs, weaks, technique_id) ==
    IF ~get_technique(techs, technique_id) THEN <<>>
    ELSE SortedSet(Elems(MitListLoop(<<>>, weaks,
                             Lookup(techs, technique_id).weaknesses)))

\* get_mit_list_for_technique(technique_id)
get_mit_list_for_technique(techs, weaks, technique_id) ==
    IF ~get_technique(techs, technique_id) THEN <<>>
    ELSE MitListLoop(<<>>, weaks, Lookup(techs, technique_id).weaknesses)

-----------------------------------------------------------------------------
(* search: text, regular expressions and query parsing *)

Quote == "\""
Space == " "

\* the characters that \w matches, among those the texts of the model use
WordChars == {"a", "b", "g", "i", "l", "m", "o", "r", "s", "u", "R",
              "d", "e", "h", "n", "t"}

\* str.lower(): R, A and M are the upper-case letters of the texts of the model
lower(text) ==
    [i \in 1..Len(text) |->
        CASE text[i] = "R" -> "r"
          [] text[i] = "A" -> "a"
          [] text[i] = "M" -> "m"
          [] OTHER -> text[i]]

\* str.upper() on a search_logic argument: the spellings of the model
upper(word) ==
    IF word \in {"and", "And", "aNd", "anD", "AND"} THEN "AND"
    ELSE IF word \in {"or", "Or", "oR", "OR"} THEN "OR"
    ELSE IF word \in {"xor", "Xor", "XOR"} THEN "XOR"
    ELSE IF word \in {"and ", "AND "} THEN "AND "
    ELSE word

RECURSIVE lstrip(_)
lstrip(text) ==
    IF text # <<>> /\ text[1] = Space THEN lstrip(Tail(text)) ELSE text

RECURSIVE rstrip(_)
rstrip(text) ==
    IF text # <<>> /\ text[Len(text)] = Space
    THEN rstrip(SubSeq(text, 1, Len(text) - 1)) ELSE text

\* str.strip()
strip(text) == rstrip(lstrip(text))

\* the position of the first quote after position i, 0 when there is none
NextQuote(text, i) ==
    IF \E j \in (i + 1)..Len(text) : text[j] = Quote
    THEN CHOOSE j \in (i + 1)..Len(text) :
            /\ text[j] = Quote
            /\ \A k \in (i + 1)..(j - 1) : text[k] # Quote
    ELSE 0

\* the leftmost non-overlapping matches of "([^"]+)" from position i on:
\* matches is what re.findall returns (the groups), rest is what
\* re.sub(pattern, '', text) leaves
RECURSIVE FindPhrases(_, _, _, _)
FindPhrases(text, i, matches, rest) ==
    IF i > Len(text) THEN [matches |-> matches, rest |-> rest]
    ELSE IF text[i] # Quote
    THEN FindPhrases(text, i + 1, matches, Append(rest, text[i]))
    ELSE LET j == NextQuote(text, i)
         IN IF j = 0
            THEN [matches |-> matches,
                  rest |-> rest \o SubSeq(text, i, Len(text))]
            ELSE IF j = i + 1
            THEN FindPhrases(text, i + 1, matches, Append(rest, Quote))
            ELSE FindPhrases(text, j + 1,
                             Append(matches, SubSeq(text, i + 1, j - 1)), rest)

\* re.findall(r'\b\w+\b', text): the maximal runs of word characters
RECURSIVE FindWords(_, _, _, _)
FindWords(text, i, word, found) ==
    IF i > Len(text)
    THEN IF word = <<>> THEN found ELSE Append(found, word)
    ELSE IF text[i] \in WordChars
    THEN FindWords(text, i + 1, Append(word, text[i]), found)
    ELSE FindWords(text, i + 1, <<>>,
                   IF word = <<>> THEN found ELSE Append(found, word))

stop_words ==
    {<<"a", "n", "d">>, <<"o", "r">>, <<"n", "o", "t">>, <<"t", "h", "e">>,
     <<"a">>, <<"a", "n">>, <<"i", "s">>, <<"a", "r", "e">>,
     <<"w", "a", "s">>, <<"w", "e", "r", "e">>}

\* _parse_search_query(keywords)
parse_search_query(keywords) ==
    LET quoted == FindPhrases(keywords, 1, <<>>, <<>>)
        word_matches == FindWords(lower(quoted.rest), 1, <<>>, <<>>)
    IN [terms |-> SelectSeq(word_matches,
                      LAMBDA word : Len(word) > 2 /\ word \notin stop_words),
        phrases |-> [i \in 1..Len(quoted.matches) |->
                        strip(lower(quoted.matches[i]))]]

\* \b at position k of text: between text[k-1] and text[k]
IsWordAt(text, k) == k \in 1..Len(text) /\ text[k] \in WordChars
Boundary(text, k) == IsWordAt(text, k - 1) # IsWordAt(text, k)

\* bool(re.search(pattern, text)) for pattern = re.escape(literal), or that
\* pattern between two \b when substring_match is false
re_search(literal, text, substring_match) ==
    \E p \in 1..(Len(text) - Len(literal) + 1) :
        /\ SubSeq(text, p, p + Len(literal) - 1) = literal
        /\ substring_match
              \/ (Boundary(text, p) /\ Boundary(text, p + Len(literal)))

-----------------------------------------------------------------------------
(* search: scoring *)

\* one of the two loops of _find_term_matches: each item found in the name
\* adds weight to name_matches, each item found in the description adds
\* weight to desc_matches, and an item found in either joins the set found
RECURSIVE MatchLoop(_, _, _, _, _, _, _)
MatchLoop(items, i, weight, name, description, substring_match, acc) ==
    IF i > Len(items) THEN acc
    ELSE LET found_in_name == re_search(items[i], name, substring_match)
             found_in_desc == re_search(items[i], description, substring_match)
         IN MatchLoop(items, i + 1, weight, name, description, substring_match,
                [found |-> IF found_in_name \/ found_in_desc
                           THEN acc.found \cup {items[i]} ELSE acc.found,
                 name_matches |-> acc.name_matches
                                    + (IF found_in_name THEN weight ELSE 0),
                 desc_matches |-> acc.desc_matches
                                    + (IF found_in_desc THEN weight ELSE 0)])

\* phrases that are worth no more than terms
find_term_matches_FlatPhrases(name, description, terms, phrases, substring_match) ==
    LET t == MatchLoop(terms, 1, 1, name, description, substring_match,
                 [found |-> {}, name_matches |-> 0, desc_matches |-> 0])
        p == MatchLoop(phrases, 1, 1, name, description, substring_match,
                 [found |-> {}, name_matches |-> t.name_matches,
                  desc_matches |-> t.desc_matches])
    IN [found_terms |-> t.found, found_phrases |-> p.found,
        name_matches |-> p.name_matches, desc_matches |-> p.desc_matches]

\* _find_term_matches(name, description, terms, phrases, substring_match)
find_term_matches(name, description, terms, phrases, substring_match) ==
    LET t == MatchLoop(terms, 1, 1, name, description, substring_match,
                 [found |-> {}, name_matches |-> 0, desc_matches |-> 0])
        p == MatchLoop(phrases, 1, 2, name, description, substring_match,
                 [found |-> {}, name_matches |-> t.name_matches,
                  desc_matches |-> t.desc_matches])
    IN [found_terms |-> t.found, found_phrases |-> p.found,
        name_matches |-> p.name_matches, desc_matches |-> p.desc_matches]

\* total_found of _apply_search_logic and _calculate_final_score
TotalFound(match_results) ==
    Cardinality(match_results.found_terms)
        + Cardinality(match_results.found_phrases)

\* _apply_search_logic(match_results, terms, phrases, search_logic)
apply_search_logic(match_results, terms, phrases, search_logic) ==
    IF search_logic = "AND"
    THEN TotalFound(match_results) >= Len(terms) + Len(phrases)
    ELSE TotalFound(match_results) > 0

\* a base score that gives a match in the description alone its count
BaseScore_CountOnly(name_matches, desc_matches) ==
    IF name_matches > 0 /\ desc_matches > 0
    THEN 100 + name_matches + desc_matches
    ELSE IF name_matches > 0 THEN 50 + name_matches
    ELSE desc_matches

\* base_score of _calculate_final_score before it is scaled
BaseScore(name_matches, desc_matches) ==
    IF name_matches > 0 /\ desc_matches > 0
    THEN 100 + name_matches + desc_matches
    ELSE IF name_matches > 0 THEN 50 + name_matches
    ELSE IF desc_matches > 0 THEN 10 + desc_matches
    ELSE 0

\* int(base_score * max(0.3, total_found / total_search_items)); the float
\* product truncates to the exact quotient for the counts of the model
Scaled(base_score, total_found, total_search_items) ==
    IF 10 * total_found >= 3 * total_search_items
    THEN (base_score * total_found) \div total_search_items
    ELSE (base_score * 3) \div 10

\* a score scaled by the matched fraction alone
calculate_final_score_NoFloor(match_results, terms, phrases, search_logic) ==
    LET base_score == BaseScore(match_results.name_matches,
                                match_results.desc_matches)
    IN IF search_logic = "OR" /\ Len(terms) + Len(phrases) > 1
       THEN (base_score * TotalFound(match_results))
                \div (Len(terms) + Len(phrases))
       ELSE base_score

\* _calculate_final_score(match_results, terms, phrases, search_logic)
calculate_final_score(match_results, terms, phrases, search_logic) ==
    LET base_score == BaseScore(match_results.name_matches,
                                match_results.desc_matches)
    IN IF search_logic = "OR" /\ Len(terms) + Len(phrases) > 1
       THEN Scaled(base_score, TotalFound(match_results),
                   Len(terms) + Len(phrases))
       ELSE base_score

\* _calculate_search_score(item, terms, phrases, substring_match,
\* search_logic): score is what it returns, the other fields are its locals
\* (base_score is 0 when the search logic excludes the item)
calculate_search_score(item, terms, phrases, substring_match, search_logic) ==
    LET match_results == find_term_matches(lower(item.name),
                             lower(item.description), terms, phrases,
                             substring_match)
        included == apply_search_logic(match_results, terms, phrases,
                                       search_logic)
    IN [item |-> item,
        name_matches |-> match_results.name_matches,
        desc_matches |-> match_results.desc_matches,
        total_found |-> TotalFound(match_results),
        included |-> included,
        base_score |-> IF included
                       THEN BaseScore(match_results.name_matches,
                                      match_results.desc_matches)
                       ELSE 0,
        score |-> IF included
                  THEN calculate_final_score(match_results, terms, phrases,
                                             search_logic)
                  ELSE 0]

\* results left in the order in which the records were scored
sort_search_results_Unsorted(scored_results) ==
    [i \in 1..Len(scored_results) |-> scored_results[i].item]

\* a descending sort that lists records of equal score in the reverse of the
\* order in which they were scored
RECURSIVE SortByScore_TiesReversed(_)
SortByScore_TiesReversed(scored_results) ==
    IF scored_results = <<>> THEN <<>>
    ELSE LET n == Len(scored_results)
             rest == SortByScore_TiesReversed(SubSeq(scored_results, 1, n - 1))
             x == scored_results[n]
             k == Cardinality({j \in 1..Len(rest) : rest[j].score > x.score})
         IN SubSeq(rest, 1, k) \o <<x>> \o SubSeq(rest, k + 1, Len(rest))

\* list.sort(key=score, reverse=True): descending, and stable
RECURSIVE SortByScore(_)
SortByScore(scored_results) ==
    IF scored_results = <<>> THEN <<>>
    ELSE LET n == Len(scored_results)
             rest == SortByScore(SubSeq(scored_results, 1, n - 1))
             x == scored_results[n]
             k == Cardinality({j \in 1..Len(rest) : rest[j].score >= x.score})
         IN SubSeq(rest, 1, k) \o <<x>> \o SubSeq(rest, k + 1, Len(rest))

\* _sort_search_results(scored_results)
sort_search_results(scored_results) ==
    LET sorted == SortByScore(scored_results)
    IN [i \in 1..Len(sorted) |-> sorted[i].item]

\* the item_types argument: None, or a list of type names
NoTypes == [none |-> TRUE, list |-> {}]
Types(list) == [none |-> FALSE, list |-> list]

\* _determine_search_collections(item_types): is type t searched
determine_search_collections(item_types, t) ==
    item_types.none \/ t \in item_types.list

\* the scores _search_collections computes for a collection, in the
\* enumeration order of the collection
ScoreAll(collection, terms, phrases, substring_match, search_logic) ==
    [i \in 1..Len(collection) |->
        calculate_search_score(collection[i], terms, phrases, substring_match,
                               search_logic)]

\* the loop body of _search_collections for one collection
search_collection(collection, terms, phrases, substring_match, search_logic) ==
    sort_search_results(
        SelectSeq(ScoreAll(collection, terms, phrases, substring_match,
                           search_logic),
                  LAMBDA e : e.score > 0))

\* _initialize_search_results()
initialize_search_results ==
    [techniques |-> <<>>, weaknesses |-> <<>>, mitigations |-> <<>>]

\* a validation that accepts the upper-case spellings only
validate_search_parameters_Exact(search_logic) ==
    search_logic \in {"AND", "OR"}

\* _validate_search_parameters(search_logic)
validate_search_parameters(search_logic) ==
    upper(search_logic) \in {"AND", "OR"}

\* a search that scores the records of the requested types even when the
\* query parses to no term and no phrase
search_NoEarlyReturn(c, keywords, item_types, substring_match, search_logic) ==
    LET q == parse_search_query(keywords)
    IN IF ~validate_search_parameters(search_logic)
       THEN [raised |-> "ValueError", results |-> initialize_search_results,
             scored |-> initialize_search_results]
       ELSE [raised |-> None,
             results |->
                [t \in DOMAIN initialize_search_results |->
                    IF determine_search_collections(item_types, t)
                    THEN search_collection(c[t], q.terms, q.phrases,
                             substring_match, upper(search_logic))
                    ELSE initialize_search_results[t]],
             scored |->
                [t \in DOMAIN initialize_search_results |->
                    IF determine_search_collections(item_types, t)
                    THEN ScoreAll(c[t], q.terms, q.phrases, substring_match,
                                  upper(search_logic))
                    ELSE <<>>]]

\* search(keywords, item_types, substring_match, search_logic) on the
\* collections c: raised is the exception, results the returned dictionary,
\* scored the scores computed on the way
search(c, keywords, item_types, substring_match, search_logic) ==
    LET q == parse_search_query(keywords)
        searched(t) == /\ determine_search_collections(item_types, t)
                       /\ q.terms # <<>> \/ q.phrases # <<>>
    IN IF ~validate_search_parameters(search_logic)
       THEN [raised |-> "ValueError", results |-> initialize_search_results,
             scored |-> initialize_search_results]
       ELSE [raised |-> None,
             results |->
                [t \in DOMAIN initialize_search_results |->
                    IF searched(t)
                    THEN search_collection(c[t], q.terms, q.phrases,
                             substring_match, upper(search_logic))
                    ELSE initialize_search_results[t]],
             scored |->
                [t \in DOMAIN initialize_search_results |->
                    IF searched(t)
                    THEN ScoreAll(c[t], q.terms, q.phrases, substring_match,
                                  upper(search_logic))
                    ELSE <<>>]]

-----------------------------------------------------------------------------
(* Initial states: the data directory before an instance is constructed *)

\* enumerations of files with pairwise different ids: the first k ids, in
\* any order
IdOrders(S) ==
    {s \in SeqsUpTo(S, Cardinality(S)) :
        /\ \A i, j \in 1..Len(s) : i # j => s[i] # s[j]
        /\ Elems(s) = 1..Len(s)}

\* reference lists for n records, with at most budget references in total
RECURSIVE RefAssign(_, _, _)
RefAssign(n, S, budget) ==
    IF n = 0 THEN {<<>>}
    ELSE UNION {{<<l>> \o rest : rest \in RefAssign(n - 1, S, budget - Len(l))} :
                  l \in SeqsUpTo(S, budget)}

\* the enumerations of the mitigation files: the first k ids, ascending
MitigationOrders ==
    {[i \in 1..k |-> i] : k \in 0..Cardinality(MitigationIds)}

TechniqueFiles(order, lists) ==
    [i \in 1..Len(order) |-> OkFile(TechniqueRec(order[i], lists[i]))]
WeaknessFiles(order, lists) ==
    [i \in 1..Len(order) |-> OkFile(WeaknessRec(order[i], lists[i]))]
MitigationFiles(order) ==
    [i \in 1..Len(order) |-> OkFile(MitigationRec(order[i]))]

\* files with one more file put at position p
InsertAt(files, p, f) ==
    SubSeq(files, 1, p - 1) \o <<f>> \o SubSeq(files, p, Len(files))

OneObjective == <<Entry(TRUE, "acquire", <<1>>)>>

\* mapping files of a data directory whose mappings play no part
PlainMappings ==
    [n \in MappingNames |->
        IF n = DEFAULT_MAPPING_FILE THEN MappingFile("list", OneObjective)
        ELSE MappingFile("absent", <<>>)]

MappingFileChoices ==
    {MappingFile("absent", <<>>), MappingFile("broken", <<>>),
     MappingFile("list", OneObjective)}

\* the extension part of the data directory: the configuration file, the
\* extensions it lists, and the ids of the techniques for which the folder
\* of the extension ExtensionName holds an extension_data.json
\* global_config is what global_solveit_config.py is: "absent", "raises"
\* (exec_module raises) or "shipped" (the file of the repository)
NoExtension ==
    [config |-> "absent", extensions |-> <<>>, techniques |-> {},
     global_config |-> "absent"]

EntityTypes == {"techniques", "weaknesses", "mitigations"}

\* the enumerations of the three record directories
Orders == IdOrders(TechniqueIds) \X IdOrders(WeaknessIds) \X MitigationOrders

\* record directories whose files are all valid records: enumerated in the
\* orders o, with the reference lists tl of the techniques and wl of the
\* weaknesses
RecordDirs(o, tl, wl) ==
    [techniques |-> Dir(TechniqueFiles(o[1], tl)),
     weaknesses |-> Dir(WeaknessFiles(o[2], wl)),
     mitigations |-> Dir(MitigationFiles(o[3]))]

\* the reference lists of the techniques enumerated in o, at most budget
\* references
TechniqueRefs(o, budget) == RefAssign(Len(o[1]), WeaknessIds, budget)

\* the reference lists of the weaknesses enumerated in o, when the techniques
\* hold tl: at most budget references in total
WeaknessRefs(o, tl, budget) ==
    RefAssign(Len(o[2]), MitigationIds, budget - SumLen(tl))

\* reference lists in which the record enumerated first refers to every id of
\* S, ascending, and each other record to the first id
FixedRefs(n, S) ==
    [i \in 1..n |-> IF i = 1 THEN SortedSet(S) ELSE <<1>>]

\* d with one file that is no valid record put into one record directory
WithOddFile(d) ==
    {[d EXCEPT ![q[1]] = Dir(InsertAt(d[q[1]].files, q[2], OddFile(q[3])))] :
        q \in {r \in EntityTypes \X (1..3) \X (FileKinds \ {"ok"}) :
                  r[2] <= Len(d[r[1]].files) + 1}}

\* d with some of its record directories missing
WithMissingDirs(d) ==
    {[t \in EntityTypes |-> IF t \in gone THEN MissingDir ELSE d[t]] :
        gone \in (SUBSET EntityTypes) \ {{}}}

\* d with an odd file, with missing directories, or with both
WithFaults(d) ==
    WithOddFile(d) \cup WithMissingDirs(d)
        \cup UNION {WithMissingDirs(f) : f \in WithOddFile(d)}

\* the references allowed in a data directory that changes after
\* construction
SomeRefs == IF MaxRefs >= 2 THEN MaxRefs - 2 ELSE 0

\* record directories that hold every id, with fixed references
FullDirs ==
    {RecordDirs(o, FixedRefs(Len(o[1]), WeaknessIds),
                FixedRefs(Len(o[2]), MitigationIds)) :
        o \in {q \in Orders : /\ Len(q[1]) = Cardinality(TechniqueIds)
                              /\ Len(q[2]) = Cardinality(WeaknessIds)
                              /\ Len(q[3]) = Cardinality(MitigationIds)}}

\* the extension ExtensionName, whose code exposes no function
DemoEntry ==
    ExtensionEntry(ExtensionName, "resolved", "ok",
                   Module("d", "missing", "missing"))

ExtensionChoices ==
    {NoExtension}
    \cup {[config |-> "list", extensions |-> <<DemoEntry>>,
           techniques |-> ids, global_config |-> "absent"] : ids \in {{}, {1}}}

\* a data directory; writable: the environment may change it
Disk(dirs, mappings, extension, writable) ==
    [techniques |-> dirs.techniques, weaknesses |-> dirs.weaknesses,
     mitigations |-> dirs.mitigations, mappings |-> mappings,
     extension |-> extension, writable |-> writable]

NoCall == [op |-> "none", arg |-> 0, out |-> 0]

\* words of the texts and of the queries
ram == <<"r", "a", "m">>
usb == <<"u", "s", "b">>
log == <<"l", "o", "g">>
img == <<"i", "m", "g">>

\* a and b with a space between them
Sp(a, b) == a \o <<Space>> \o b

\* text between double quotes
Quoted(text) == <<Quote>> \o text \o <<Quote>>

\* the name and the description of the records that are searched
SearchTexts ==
    {<<<<"R", "a", "m">>, Sp(ram, usb)>>,
     <<img, Sp(ram, usb)>>,
     <<ram, ram>>,
     <<img, ram>>,
     <<Sp(ram \o <<"s">>, log), <<>>>>,
     <<usb, <<>>>>,
     <<Sp(ram, usb), ram \o <<"-">> \o log>>}

\* the keywords arguments of search
SearchQueries ==
    {ram,
     Sp(ram, usb),
     Sp(ram, ram),
     Sp(Sp(ram, usb), log),
     Sp(Sp(ram, usb), Sp(img, log)),
     Quoted(Sp(ram, usb)),
     Sp(Quoted(Sp(ram, usb)), log),
     Sp(Quoted(ram), ram),
     Sp(<<"R", "a", "m">>, Sp(<<"t", "h", "e">>, <<"i", "s">>)),
     ram \o Quoted(usb) \o log,
     Quoted(Sp(<<>>, Sp(usb, <<>>))) \o <<Quote>>,
     <<>>}

\* a query of a stop word and of a word too short to be a term
UnusableQuery == Sp(<<"t", "h", "e">>, <<"i", "s">>)

\* search_logic arguments in other spellings, accepted and not
OtherLogics == {"And", "aNd", "oR", "Or", "xor", "XOR", "", "AND ", "NOT"}

\* the calls of search: every query in both logics and both matching modes,
\* and calls with a lower-case logic, an invalid logic and a list of types
SearchCalls ==
    {[keywords |-> k, item_types |-> NoTypes, substring_match |-> b,
      search_logic |-> l] :
        k \in SearchQueries, l \in {"AND", "OR"}, b \in BOOLEAN}
    \cup {[keywords |-> Sp(ram, usb), item_types |-> NoTypes,
           substring_match |-> FALSE, search_logic |-> l] :
             l \in {"or", "XOR"}}
    \cup {[keywords |-> Sp(ram, usb), item_types |-> Types({"techniques"}),
           substring_match |-> FALSE, search_logic |-> "OR"]}
    \cup {[keywords |-> k, item_types |-> NoTypes, substring_match |-> FALSE,
           search_logic |-> l] :
             k \in {<<>>, UnusableQuery, ram}, l \in OtherLogics}
    \cup {[keywords |-> k, item_types |-> Types({"weaknesses"}),
           substring_match |-> FALSE, search_logic |-> "AND"] :
             k \in {<<>>, UnusableQuery}}

\* a technique file whose record has the given name and description
NamedTechnique(i, text) ==
    OkFile([TechniqueRec(i, <<>>) EXCEPT !.name = text[1],
                                         !.description = text[2]])

\* data directories of one or two techniques with different texts and of
\* one weakness
SearchDisks ==
    {Disk([techniques |-> Dir(files),
           weaknesses |-> Dir(<<OkFile([WeaknessRec(1, <<>>) EXCEPT
                                           !.name = usb,
                                           !.description = Sp(ram, log)])>>),
           mitigations |-> Dir(<<>>)],
          PlainMappings, NoExtension, FALSE) :
        files \in {<<NamedTechnique(1, a)>> : a \in SearchTexts}
                 \cup {<<NamedTechnique(1, t[1]), NamedTechnique(2, t[2])>> :
                          t \in {u \in SearchTexts \X SearchTexts :
                                    u[1] # u[2]}}}

\* no instance has been constructed
Fresh ==
    /\ pc = "new"
    /\ error = None
    /\ edits = 0
    /\ techniques = <<>>
    /\ weaknesses = <<>>
    /\ mitigations = <<>>
    /\ weakness_to_techniques = EmptyIndex
    /\ mitigation_to_weaknesses = EmptyIndex
    /\ mitigation_to_techniques = EmptyIndex
    /\ objective_mappings = NoMappings
    /\ current_mapping_name = None
    /\ extension_modules = <<>>
    /\ global_config = None
    /\ failed_file = <<>>
    /\ ret = NoCall

Init ==
    /\ Fresh
    /\ \/ \* a read-only data directory of valid records, a mitigation among them
          \E o \in {q \in Orders : Len(q[3]) = 1} :
            \E tl \in TechniqueRefs(o, MaxRefs) :
              \E wl \in WeaknessRefs(o, tl, MaxRefs) :
                disk = Disk(RecordDirs(o, tl, wl), PlainMappings, NoExtension,
                            FALSE)
       \/ \* a read-only data directory with an odd file or missing directories
          \E o \in Orders :
            \E f \in WithFaults(RecordDirs(o, FixedRefs(Len(o[1]), WeaknessIds),
                                            FixedRefs(Len(o[2]), MitigationIds))) :
              disk = Disk(f, PlainMappings, NoExtension, FALSE)
       \/ \* a read-only data directory whose mapping files and extension vary
          \E d \in FullDirs :
            \E mp \in [MappingNames -> MappingFileChoices],
               ex \in ExtensionChoices :
              disk = Disk(d, mp, ex, FALSE)
       \/ \* a data directory that the environment changes after construction
          \E o \in {q \in Orders : Len(q[3]) = 1} :
            \E tl \in TechniqueRefs(o, SomeRefs) :
              \E wl \in WeaknessRefs(o, tl, SomeRefs) :
                disk = Disk(RecordDirs(o, tl, wl), PlainMappings, NoExtension,
                            TRUE)

-----------------------------------------------------------------------------
(* KnowledgeBase.__init__ *)

\* the "Validate essential paths" loop
RequiredDirsExist(d) == \A t \in EntityTypes : d[t].exists

\* the first record directory, in loading order, whose load raises
FirstRaise(t, w, m) ==
    IF t.raised > 0 THEN <<"techniques", t.raised>>
    ELSE IF w.raised > 0 THEN <<"weaknesses", w.raised>>
    ELSE IF m.raised > 0 THEN <<"mitigations", m.raised>>
    ELSE <<>>

\* a constructor that does not go on to the default mapping
InitialMapping_NoDefault(files, mapping_file) ==
    load_objective_mapping(files, NoMappings, None, mapping_file)

\* the constructor's two attempts at load_objective_mapping
InitialMapping(files, mapping_file) ==
    LET first == load_objective_mapping(files, NoMappings, None, mapping_file)
    IN IF first.ok THEN first
       ELSE load_objective_mapping(files, first.maps, first.cur,
                                   DEFAULT_MAPPING_FILE)

\* _load_extension_data_for_items on the techniques: the data of the
\* extension ExtensionName is attached when extensions are loaded and the
\* folder of that extension resolves
load_extension_data_for_items(extension, modules, items) ==
    IF /\ has_extensions(modules)
       /\ \E i \in 1..Len(extension.extensions) :
             /\ extension.extensions[i].name = ExtensionName
             /\ resolve_extension_path(extension.extensions[i])
    THEN AttachTo(items, extension.techniques)
    ELSE items

Construct(mapping_file, enable_extensions) ==
    /\ pc = "new"
    /\ ret' = [op |-> "__init__", arg |-> 0, out |-> 0]
    /\ UNCHANGED <<disk, edits>>
    /\ LET t == load_json_files(disk.techniques)
           w == load_json_files(disk.weaknesses)
           m == load_json_files(disk.mitigations)
           idx == build_reverse_indices(t.data, w.data, NoIndices)
           mp == InitialMapping(disk.mappings, mapping_file)
           mods == IF enable_extensions THEN load_extensions(disk.extension)
                   ELSE <<>>
       IN IF ~RequiredDirsExist(disk)
          THEN /\ pc' = "failed"
               /\ error' = "FileNotFoundError"
               /\ UNCHANGED <<techniques, weaknesses, mitigations,
                              weakness_to_techniques, mitigation_to_weaknesses,
                              mitigation_to_techniques, objective_mappings,
                              current_mapping_name, extension_modules, global_config,
                              failed_file>>
          ELSE IF FirstRaise(t, w, m) # <<>>
          THEN /\ pc' = "failed"
               /\ error' = "SOLVEITDataError"
               /\ failed_file' = FirstRaise(t, w, m)
               /\ UNCHANGED <<techniques, weaknesses, mitigations,
                              weakness_to_techniques, mitigation_to_weaknesses,
                              mitigation_to_techniques, objective_mappings,
                              current_mapping_name, extension_modules, global_config>>
          ELSE /\ pc' = "ready"
               /\ error' = None
               /\ failed_file' = <<>>
               /\ techniques' = load_extension_data_for_items(disk.extension,
                                                               mods, t.data)
               /\ weaknesses' = w.data
               /\ mitigations' = m.data
               /\ weakness_to_techniques' = idx.w2t
               /\ mitigation_to_weaknesses' = idx.m2w
               /\ mitigation_to_techniques' = idx.m2t
               /\ objective_mappings' = mp.maps
               /\ current_mapping_name' = mp.cur
               /\ extension_modules' = mods
               /\ global_config' = IF enable_extensions
                                    THEN load_global_config(disk.extension)
                                    ELSE None

-----------------------------------------------------------------------------
(* Operations on a constructed instance *)

kb == <<techniques, weaknesses, mitigations>>
indices == <<weakness_to_techniques, mitigation_to_weaknesses,
             mitigation_to_techniques>>
mapping == <<objective_mappings, current_mapping_name>>

\* kb.get_techniques_for_weakness(weakness_id)
GetTechniquesForWeakness(weakness_id) ==
    /\ pc = "ready"
    /\ ret' = [op |-> "get_techniques_for_weakness", arg |-> weakness_id,
               out |-> get_techniques_for_weakness(techniques, weaknesses,
                           weakness_to_techniques, weakness_id)]
    /\ UNCHANGED <<pc, error, disk, edits, kb, indices, mapping,
                   extension_modules, global_config, failed_file>>

\* kb.get_techniques_for_mitigation(mitigation_id)
GetTechniquesForMitigation(mitigation_id) ==
    /\ pc = "ready"
    /\ ret' = [op |-> "get_techniques_for_mitigation", arg |-> mitigation_id,
               out |-> get_techniques_for_mitigation(techniques, mitigations,
                           mitigation_to_techniques, mitigation_id)]
    /\ UNCHANGED <<pc, error, disk, edits, kb, indices, mapping,
                   extension_modules, global_config, failed_file>>

\* kb.get_weaknesses_for_mitigation(mitigation_id)
GetWeaknessesForMitigation(mitigation_id) ==
    /\ pc = "ready"
    /\ ret' = [op |-> "get_weaknesses_for_mitigation", arg |-> mitigation_id,
               out |-> get_weaknesses_for_mitigation(weaknesses, mitigations,
                           mitigation_to_weaknesses, mitigation_id)]
    /\ UNCHANGED <<pc, error, disk, edits, kb, indices, mapping,
                   extension_modules, global_config, failed_file>>

\* kb.get_weaknesses_for_technique(technique_id)
GetWeaknessesForTechnique(technique_id) ==
    /\ pc = "ready"
    /\ ret' = [op |-> "get_weaknesses_for_technique", arg |-> technique_id,
               out |-> get_weaknesses_for_technique(techniques, weaknesses,
                                                    technique_id)]
    /\ UNCHANGED <<pc, error, disk, edits, kb, indices, mapping,
                   extension_modules, global_config, failed_file>>

\* kb.get_mitigations_for_weakness(weakness_id)
GetMitigationsForWeakness(weakness_id) ==
    /\ pc = "ready"
    /\ ret' = [op |-> "get_mitigations_for_weakness", arg |-> weakness_id,
               out |-> get_mitigations_for_weakness(weaknesses, mitigations,
                                                    weakness_id)]
    /\ UNCHANGED <<pc, error, disk, edits, kb, indices, mapping,
                   extension_modules, global_config, failed_file>>

\* kb.get_objectives_for_technique(technique_id, mapping_name)
GetObjectivesForTechnique(technique_id, mapping_name) ==
    /\ pc = "ready"
    /\ ret' = [op |-> "get_objectives_for_technique",
               arg |-> [technique_id |-> technique_id,
                        mapping_name |-> mapping_name],
               out |-> get_objectives_for_technique(techniques,
                           objective_mappings, current_mapping_name,
                           technique_id, mapping_name)]
    /\ UNCHANGED <<pc, error, disk, edits, kb, indices, mapping,
                   extension_modules, global_config, failed_file>>

\* a worksheet without rows, as the caller of an excel function creates it
NewSheets == <<<<>>>>

\* kb.call_extension_function(function_name, technique_id, worksheet, kb=self)
\* for an excel function, and without the worksheet for a markdown function
CallExtensionFunction(function_name) ==
    /\ pc = "ready"
    /\ ret' = [op |-> "call_extension_function", arg |-> function_name,
               out |-> call_extension_function(extension_modules,
                           function_name, NewSheets,
                           IF function_name = "get_excel_for_technique"
                           THEN 1 ELSE 0)]
    /\ UNCHANGED <<pc, error, disk, edits, kb, indices, mapping,
                   extension_modules, global_config, failed_file>>

\* kb.add_excel_to_technique(technique_id, excel_worksheet, start_row)
AddExcelToTechnique ==
    /\ pc = "ready"
    /\ ret' = [op |-> "add_excel_to_technique",
               arg |-> "get_excel_for_technique",
               out |-> add_excel_to_technique(extension_modules, NewSheets, 1)]
    /\ UNCHANGED <<pc, error, disk, edits, kb, indices, mapping,
                   extension_modules, global_config, failed_file>>

\* kb.get_mit_list_for_technique(technique_id)
GetMitListForTechnique(technique_id) ==
    /\ pc = "ready"
    /\ ret' = [op |-> "get_mit_list_for_technique", arg |-> technique_id,
               out |-> get_mit_list_for_technique(techniques, weaknesses,
                                                  technique_id)]
    /\ UNCHANGED <<pc, error, disk, edits, kb, indices, mapping,
                   extension_modules, global_config, failed_file>>

\* a list_objectives that makes the mapping it lists the current one
ListObjectives_Activating(mapping_name) ==
    /\ pc = "ready"
    /\ ret' = [op |-> "list_objectives", arg |-> mapping_name,
               out |-> list_objectives(objective_mappings,
                                       current_mapping_name, mapping_name)]
    /\ current_mapping_name' = IF mapping_name # None THEN mapping_name
                               ELSE current_mapping_name
    /\ UNCHANGED <<pc, error, disk, edits, kb, indices, objective_mappings,
                   extension_modules, global_config, failed_file>>

\* kb.list_objectives(mapping_name)
ListObjectives(mapping_name) ==
    /\ pc = "ready"
    /\ ret' = [op |-> "list_objectives", arg |-> mapping_name,
               out |-> list_objectives(objective_mappings,
                                       current_mapping_name, mapping_name)]
    /\ UNCHANGED <<pc, error, disk, edits, kb, indices, mapping,
                   extension_modules, global_config, failed_file>>

\* the environment replaces, creates or deletes one mapping file of the
\* data directory
ReplaceMappingFile(n, f) ==
    /\ pc = "ready"
    /\ disk.writable
    /\ edits < MaxEdits
    /\ disk.mappings[n] # f
    /\ disk' = [disk EXCEPT !.mappings[n] = f]
    /\ edits' = edits + 1
    /\ UNCHANGED <<pc, error, kb, indices, mapping, extension_modules, global_config,
                   failed_file, ret>>

\* the environment removes one record directory of the data directory
RemoveDirectory(t) ==
    /\ pc = "ready"
    /\ disk.writable
    /\ edits < MaxEdits
    /\ disk[t].exists
    /\ disk' = [disk EXCEPT ![t] = MissingDir]
    /\ edits' = edits + 1
    /\ UNCHANGED <<pc, error, kb, indices, mapping, extension_modules, global_config,
                   failed_file, ret>>

\* what a re-invoked loader returns or raises
LoadOutcome(r) == IF r.raised > 0 THEN "SOLVEITDataError" ELSE "ok"

\* kb._load_techniques() called again: the map is assigned only when
\* _load_json_files returns
LoadTechniques ==
    /\ pc = "ready"
    /\ LET r == load_json_files(disk.techniques)
       IN /\ techniques' = IF r.raised > 0 THEN techniques ELSE r.data
          /\ ret' = [op |-> "_load_techniques", arg |-> 0, out |-> LoadOutcome(r)]
    /\ UNCHANGED <<pc, error, disk, edits, weaknesses, mitigations, indices,
                   mapping, extension_modules, global_config, failed_file>>

\* kb._load_weaknesses() called again
LoadWeaknesses ==
    /\ pc = "ready"
    /\ LET r == load_json_files(disk.weaknesses)
       IN /\ weaknesses' = IF r.raised > 0 THEN weaknesses ELSE r.data
          /\ ret' = [op |-> "_load_weaknesses", arg |-> 0, out |-> LoadOutcome(r)]
    /\ UNCHANGED <<pc, error, disk, edits, techniques, mitigations, indices,
                   mapping, extension_modules, global_config, failed_file>>

\* kb._load_mitigations() called again
LoadMitigations ==
    /\ pc = "ready"
    /\ LET r == load_json_files(disk.mitigations)
       IN /\ mitigations' = IF r.raised > 0 THEN mitigations ELSE r.data
          /\ ret' = [op |-> "_load_mitigations", arg |-> 0, out |-> LoadOutcome(r)]
    /\ UNCHANGED <<pc, error, disk, edits, techniques, weaknesses, indices,
                   mapping, extension_modules, global_config, failed_file>>

\* kb._build_reverse_indices() called again
BuildReverseIndices ==
    /\ pc = "ready"
    /\ LET idx == build_reverse_indices(techniques, weaknesses,
                       [w2t |-> weakness_to_techniques,
                        m2w |-> mitigation_to_weaknesses,
                        m2t |-> mitigation_to_techniques])
       IN /\ weakness_to_techniques' = idx.w2t
          /\ mitigation_to_weaknesses' = idx.m2w
          /\ mitigation_to_techniques' = idx.m2t
    /\ ret' = [op |-> "_build_reverse_indices", arg |-> 0, out |-> 0]
    /\ UNCHANGED <<pc, error, disk, edits, kb, mapping, extension_modules, global_config,
                   failed_file>>

\* kb.load_objective_mapping(mapping_filename)
LoadObjectiveMapping(mapping_filename) ==
    /\ pc = "ready"
    /\ LET r == load_objective_mapping(disk.mappings, objective_mappings,
                                       current_mapping_name, mapping_filename)
       IN /\ objective_mappings' = r.maps
          /\ current_mapping_name' = r.cur
          /\ ret' = [op |-> "load_objective_mapping", arg |-> mapping_filename,
                     out |-> r.ok]
    /\ UNCHANGED <<pc, error, disk, edits, kb, indices, extension_modules, global_config,
                   failed_file>>

\* kb._load_extension_data_for_items() called again
LoadExtensionDataForItems ==
    /\ pc = "ready"
    /\ techniques' = load_extension_data_for_items(disk.extension,
                                                    extension_modules,
                                                    techniques)
    /\ ret' = [op |-> "_load_extension_data_for_items", arg |-> 0, out |-> 0]
    /\ UNCHANGED <<pc, error, disk, edits, weaknesses, mitigations, indices,
                   mapping, extension_modules, global_config, failed_file>>

\* kb.search(keywords, item_types, substring_match, search_logic)
Search(keywords, item_types, substring_match, search_logic) ==
    /\ pc = "ready"
    /\ ret' = [op |-> "search",
               arg |-> [keywords |-> keywords, item_types |-> item_types,
                        substring_match |-> substring_match,
                        search_logic |-> search_logic],
               out |-> search([techniques |-> techniques,
                               weaknesses |-> weaknesses,
                               mitigations |-> mitigations],
                              keywords, item_types, substring_match,
                              search_logic)]
    /\ UNCHANGED <<pc, error, disk, edits, kb, indices, mapping,
                   extension_modules, global_config, failed_file>>

Next ==
    \/ \E mapping_file \in MappingNames, enable_extensions \in BOOLEAN :
          Construct(mapping_file, enable_extensions)
    \/ \E w \in WeaknessIds : GetTechniquesForWeakness(w)
    \/ \E m \in MitigationIds : GetTechniquesForMitigation(m)
    \/ \E t \in EntityTypes : RemoveDirectory(t)
    \/ LoadTechniques
    \/ LoadWeaknesses
    \/ LoadMitigations
    \/ BuildReverseIndices
    \/ \E n \in MappingNames : LoadObjectiveMapping(n)
    \/ LoadExtensionDataForItems
    \/ Search(ram, NoTypes, FALSE, "AND")

Spec == Init /\ [][Next]_vars

\* searches of instances constructed from the data directories SearchDisks
SearchInit == Fresh /\ disk \in SearchDisks

SearchNext ==
    \/ Construct(DEFAULT_MAPPING_FILE, FALSE)
    \/ \E c \in SearchCalls :
          Search(c.keywords, c.item_types, c.substring_match, c.search_logic)

SearchSpec == SearchInit /\ [][SearchNext]_vars

\* traversals of instances constructed from data directories of valid
\* records, some of whose references do not resolve
TraversalInit ==
    /\ Fresh
    /\ \/ \E o \in Orders :
             \E tl \in TechniqueRefs(o, MaxRefs) :
               \E wl \in WeaknessRefs(o, tl, MaxRefs) :
                 disk = Disk(RecordDirs(o, tl, wl), PlainMappings, NoExtension,
                             FALSE)
       \/ \* a technique whose two weaknesses share a mitigation
          \E o \in {q \in Orders : Len(q[1]) = 1 /\ Len(q[2]) = 2} :
             disk = Disk(RecordDirs(o, <<<<2, 1>>>>,
                                    [i \in 1..2 |-> IF o[2][i] = 2 THEN <<2>>
                                                    ELSE <<2, 1>>]),
                         PlainMappings, NoExtension, FALSE)

TraversalNext ==
    \/ Construct(DEFAULT_MAPPING_FILE, FALSE)
    \/ \E w \in WeaknessIds : GetTechniquesForWeakness(w)
    \/ \E m \in MitigationIds : GetWeaknessesForMitigation(m)
    \/ \E m \in MitigationIds : GetTechniquesForMitigation(m)
    \/ \E t \in TechniqueIds : GetWeaknessesForTechnique(t)
    \/ \E w \in WeaknessIds : GetMitigationsForWeakness(w)
    \/ \E t \in TechniqueIds : GetMitListForTechnique(t)

TraversalSpec == TraversalInit /\ [][TraversalNext]_vars

\* the ids of the techniques of a hierarchy of three levels
HierarchyIds == 1..3

\* a technique file whose record lists the subtechniques subs
ParentTechnique(i, subs) ==
    OkFile([TechniqueRec(i, <<>>) EXCEPT !.subtechniques = subs])

\* the subtechnique lists of technique i: ascending lists of other ids
SubtechniqueLists(i) ==
    {SortedSet(S) : S \in SUBSET (HierarchyIds \ {i})}

\* the objectives of the two mapping files
AcquireLists == {<<>>, <<1>>, <<3>>, <<1, 2>>}
AnalyseLists == {<<>>, <<1>>, <<2>>}

ObjectiveMappings(acquire, analyse) ==
    [n \in MappingNames |->
        IF n = DEFAULT_MAPPING_FILE
        THEN MappingFile("list", <<Entry(TRUE, "acquire", acquire),
                                   Entry(TRUE, "analyse", analyse)>>)
        ELSE MappingFile("list", <<Entry(TRUE, "carrier", <<2>>)>>)]

\* data directories of three techniques, some the subtechniques of others,
\* enumerated in ascending or in descending order of their ids
ObjectiveDisks ==
    {Disk([techniques |->
              Dir([i \in 1..3 |->
                     ParentTechnique(order[i], subs[order[i]])]),
           weaknesses |-> Dir(<<>>),
           mitigations |-> Dir(<<>>)],
          ObjectiveMappings(acquire, analyse), NoExtension, FALSE) :
        order \in {<<1, 2, 3>>, <<3, 2, 1>>},
        subs \in {f \in [HierarchyIds -> UNION {SubtechniqueLists(i) :
                                                   i \in HierarchyIds}] :
                     \A i \in HierarchyIds : f[i] \in SubtechniqueLists(i)},
        acquire \in AcquireLists, analyse \in AnalyseLists}

ObjectiveInit == Fresh /\ disk \in ObjectiveDisks

ObjectiveNext ==
    \/ \E mapping_file \in MappingNames : Construct(mapping_file, FALSE)
    \/ \E technique_id \in HierarchyIds, mapping_name \in {None, "carrier.json"} :
          GetObjectivesForTechnique(technique_id, mapping_name)

ObjectiveSpec == ObjectiveInit /\ [][ObjectiveNext]_vars

\* the names of the configured extensions, in the order of the file
ExtensionNames == <<"a", "b", "c">>

MarkdownKinds == {"missing", "none", "raises", "text", "blank"}
ExcelKinds == {"missing", "none", "raises", "write", "copy", "text"}

\* what the file system holds for a configured extension
LoadOutcomes ==
    {<<"none", "ok">>, <<"unresolved", "ok">>, <<"resolved", "absent">>,
     <<"resolved", "raises">>, <<"resolved", "ok">>}

\* configurations of three extensions: all load and differ in what their
\* markdown function or their excel function does, or they differ in
\* whether they load
ExtensionConfigs ==
    {[i \in 1..3 |->
        ExtensionEntry(ExtensionNames[i], "resolved", "ok",
                       Module(ExtensionNames[i], k[i], "missing"))] :
        k \in [1..3 -> MarkdownKinds]}
    \cup {[i \in 1..3 |->
        ExtensionEntry(ExtensionNames[i], "resolved", "ok",
                       Module(ExtensionNames[i], "missing", k[i]))] :
        k \in [1..3 -> ExcelKinds]}
    \cup {[i \in 1..3 |->
        ExtensionEntry(ExtensionNames[i], o[i][1], o[i][2],
                       Module(ExtensionNames[i], "text", "write"))] :
        o \in [1..3 -> LoadOutcomes]}

\* data directories of one technique whose extensions vary
ExtensionDisks ==
    {Disk(RecordDirs(<<<<1>>, <<>>, <<>>>>, <<<<>>>>, <<>>), PlainMappings,
          ex, FALSE) :
        ex \in {[config |-> "list", extensions |-> e, techniques |-> {},
                  global_config |-> "absent"] : e \in ExtensionConfigs}
                \cup {[config |-> c, extensions |-> <<>>, techniques |-> {},
                       global_config |-> "absent"] :
                         c \in {"absent", "broken", "nofields"}}}

ExtensionInit == Fresh /\ disk \in ExtensionDisks

ExtensionNext ==
    \/ Construct(DEFAULT_MAPPING_FILE, TRUE)
    \/ \E function_name \in FunctionNames : CallExtensionFunction(function_name)
    \/ AddExcelToTechnique

ExtensionSpec == ExtensionInit /\ [][ExtensionNext]_vars

\* a mapping document of three entries, the second of which is no valid
\* objective
MixedObjectives ==
    <<Entry(TRUE, "acquire", <<1>>), Entry(FALSE, "bad", <<1>>),
      Entry(TRUE, "analyse", <<1, 2>>)>>

\* what a mapping file of the data directory may be
MappingFileStates ==
    {MappingFile("absent", <<>>), MappingFile("broken", <<>>),
     MappingFile("notlist", <<>>), MappingFile("list", OneObjective),
     MappingFile("list", MixedObjectives)}

\* mapping names that are passed to the queries: a file name that was never
\* loaded among them
QueriedMappings == {None, "solve-it.json", "carrier.json", "other.json"}

\* data directories of one technique whose mapping files vary and that the
\* environment may change
MappingDisks ==
    {Disk(RecordDirs(<<<<1>>, <<>>, <<>>>>, <<<<>>>>, <<>>), mp, NoExtension,
          TRUE) :
        mp \in [MappingNames -> MappingFileStates]}

MappingInit == Fresh /\ disk \in MappingDisks

MappingNext ==
    \/ \E mapping_file \in MappingNames : Construct(mapping_file, FALSE)
    \/ \E n \in MappingNames : LoadObjectiveMapping(n)
    \/ \E n \in MappingNames, f \in MappingFileStates : ReplaceMappingFile(n, f)
    \/ \E mapping_name \in QueriedMappings : ListObjectives(mapping_name)
    \/ \E technique_id \in TechniqueIds, mapping_name \in QueriedMappings :
          GetObjectivesForTechnique(technique_id, mapping_name)

MappingSpec == MappingInit /\ [][MappingNext]_vars

-----------------------------------------------------------------------------
(* Properties of the reverse indices *)

CurrentIndices ==
    [w2t |-> weakness_to_techniques, m2w |-> mitigation_to_weaknesses,
     m2t |-> mitigation_to_techniques]

\* the reverse indices are those _build_reverse_indices computes from the
\* current techniques and weaknesses maps
Agree(techs, weaks, w2t, m2w, m2t) ==
    [w2t |-> w2t, m2w |-> m2w, m2t |-> m2t]
        = build_reverse_indices(techs, weaks, NoIndices)

IndicesAgree ==
    Agree(techniques, weaknesses, weakness_to_techniques,
          mitigation_to_weaknesses, mitigation_to_techniques)

\* the ids of a sequence of records
Ids(records) == [i \in 1..Len(records) |-> records[i].id]

\* technique T is loaded and lists weakness W
Lists(T, W) ==
    /\ HasKey(techniques, T)
    /\ InList(W, Lookup(techniques, T).weaknesses)

\* the record of technique T is in get_techniques_for_weakness(W)
Returned(T, W) ==
    \E r \in Elems(get_techniques_for_weakness(techniques, weaknesses,
                                                weakness_to_techniques, W)) :
        r.id = T /\ HasKey(techniques, T) /\ r = Lookup(techniques, T)

\* C1 as stated: for every technique id T and every weakness id W, loaded
\* weakness or not, W is in T's weakness list iff T's record is in
\* get_techniques_for_weakness(W).
C1_AsStated ==
    (pc = "ready" /\ IndicesAgree) =>
        \A T \in TechniqueIds, W \in WeaknessIds : Lists(T, W) <=> Returned(T, W)

\* C1 amended: while the reverse indices are those built from the loaded
\* records, for every technique id T and every id W of a loaded weakness, W
\* is in T's weakness list iff T's record is in
\* get_techniques_for_weakness(W); for an id W that is no loaded weakness the
\* result is empty, whether or not a technique lists W.
C1_Amended ==
    (pc = "ready" /\ IndicesAgree) =>
        \A W \in WeaknessIds :
            IF HasKey(weaknesses, W)
            THEN \A T \in TechniqueIds : Lists(T, W) <=> Returned(T, W)
            ELSE get_techniques_for_weakness(techniques, weaknesses,
                                             weakness_to_techniques, W) = <<>>

\* a call of get_techniques_for_weakness on a loaded weakness returned two
\* techniques, and the other weakness id is referenced but not loaded
C1_Witness ==
    /\ pc = "ready"
    /\ IndicesAgree
    /\ ret.op = "get_techniques_for_weakness"
    /\ Len(ret.out) = 2
    /\ \E W \in WeaknessIds, T \in TechniqueIds :
          ~HasKey(weaknesses, W) /\ Lists(T, W)

\* the techniques that list at least one loaded weakness that lists M
ReachingTechniques(M) ==
    {T \in TechniqueIds :
        \E W \in WeaknessIds :
            /\ Lists(T, W)
            /\ HasKey(weaknesses, W)
            /\ InList(M, Lookup(weaknesses, W).mitigations)}

\* ids strictly ascending: ascending and none repeated
StrictlyAscending(ids) == \A i, j \in 1..Len(ids) : i < j => ids[i] < ids[j]

C3_AsStated == pc = "ready" => IndicesAgree

\* C3 amended: the reverse indices agree with the current maps when the
\* constructor returns, and every operation other than a re-invoked
\* _load_techniques or _load_weaknesses keeps them in agreement; a re-invoked
\* entity loader replaces its map without rebuilding the indices.
C3_Amended ==
    [][(/\ pc' = "ready"
        /\ pc = "ready" => IndicesAgree
        /\ ret'.op \notin {"_load_techniques", "_load_weaknesses"})
       => Agree(techniques', weaknesses', weakness_to_techniques',
                mitigation_to_weaknesses', mitigation_to_techniques')]_vars

\* side data was attached to a technique of an instance whose indices are not
\* empty, and the indices agree with the maps
C3_Witness ==
    /\ pc = "ready"
    /\ ret.op = "_load_extension_data_for_items"
    /\ \E i \in 1..Len(techniques) : techniques[i].extension_data # {}
    /\ DOMAIN mitigation_to_techniques # {}
    /\ IndicesAgree

\* a dict enumerated in ascending id order
ById(d) == [i \in 1..Len(d) |-> Lookup(d, SortedSet(Elems(Keys(d)))[i])]

\* ascending, repetitions allowed
Ascending(ids) == \A i, j \in 1..Len(ids) : i < j => ids[i] <= ids[j]

AllAscending(idx) == \A k \in DOMAIN idx : Ascending(idx[k])

\* C4: when _build_reverse_indices has run, running it again on the same
\* records yields the same three indices (same keys, same ordered lists),
\* every index list is in ascending id order, and the indices are those
\* obtained from the records enumerated in ascending id order.
C4_Theorem ==
    (pc = "ready" /\ ret.op \in {"__init__", "_build_reverse_indices"}) =>
        /\ build_reverse_indices(techniques, weaknesses, CurrentIndices)
               = CurrentIndices
        /\ AllAscending(weakness_to_techniques)
        /\ AllAscending(mitigation_to_weaknesses)
        /\ AllAscending(mitigation_to_techniques)
        /\ CurrentIndices
               = build_reverse_indices(ById(techniques), ById(weaknesses),
                                       NoIndices)

\* _build_reverse_indices was run again on techniques enumerated in descending
\* id order, and a weakness lists both of them in ascending order
C4_Witness ==
    /\ pc = "ready"
    /\ ret.op = "_build_reverse_indices"
    /\ Keys(techniques) = <<2, 1>>
    /\ \E W \in DOMAIN weakness_to_techniques :
          weakness_to_techniques[W] = <<1, 2>>

-----------------------------------------------------------------------------
(* Properties of loading *)

\* a record directory holds a file that the loader cannot load
HasBadFile(t) ==
    \E i \in 1..Len(disk[t].files) : disk[t].files[i].kind \in BadKinds

NoInstance ==
    /\ techniques = <<>> /\ weaknesses = <<>> /\ mitigations = <<>>
    /\ CurrentIndices = NoIndices

\* C5: when a record file of any entity type fails validation, cannot be
\* parsed or cannot be read, construction raises SOLVEITDataError and no
\* instance is returned: no knowledge base exists that holds the records
\* that preceded the failing file.
C5_Theorem ==
    /\ failed_file # <<>> =>
          /\ pc = "failed"
          /\ error = "SOLVEITDataError"
          /\ disk[failed_file[1]].files[failed_file[2]].kind \in BadKinds
          /\ NoInstance
    /\ (pc # "new" /\ RequiredDirsExist(disk)
           /\ \E t \in EntityTypes : HasBadFile(t)) => failed_file # <<>>
    /\ (pc # "new" /\ \E t \in EntityTypes : HasBadFile(t)) =>
          (pc = "failed" /\ NoInstance)

\* construction raised on the second file of the weaknesses directory, after
\* the techniques and a first weakness file had been read
C5_Witness ==
    /\ pc = "failed"
    /\ error = "SOLVEITDataError"
    /\ failed_file = <<"weaknesses", 2>>
    /\ disk.weaknesses.files[1].kind = "ok"
    /\ Len(disk.techniques.files) > 0

\* C6 as stated: when the directory of one entity type is missing, the
\* knowledge base is still constructed, that entity type being empty.
C6_AsStated ==
    (pc # "new" /\ ~RequiredDirsExist(disk)) => pc = "ready"

\* what a re-invoked loader of entity type t left behind
LoadedBy(t) ==
    IF t = "techniques" THEN techniques
    ELSE IF t = "weaknesses" THEN weaknesses ELSE mitigations

\* C6 amended: when a record directory is missing at construction, the
\* constructor raises FileNotFoundError and no knowledge base is
\* constructed; the loader itself is not fatal on a missing directory: a
\* re-invoked _load_techniques, _load_weaknesses or _load_mitigations whose
\* directory has gone returns normally and loads the empty collection.
C6_Amended ==
    /\ []((pc = "failed" /\ ~RequiredDirsExist(disk)) =>
             (error = "FileNotFoundError" /\ NoInstance))
    /\ []((pc = "ready" /\ ~RequiredDirsExist(disk)) => edits > 0)
    /\ [][\A t \in EntityTypes :
            (/\ pc = "ready"
             /\ ~disk[t].exists
             /\ disk' = disk
             /\ ret'.op = "_load_" \o t) =>
                (pc' = "ready" /\ ret'.out = "ok" /\ LoadedBy(t)' = <<>>)]_vars

\* the weaknesses directory was removed after construction and
\* _load_weaknesses, called again, emptied a map that held weaknesses
C6_Witness ==
    /\ pc = "ready"
    /\ ret.op = "_load_weaknesses"
    /\ ret.out = "ok"
    /\ ~disk.weaknesses.exists
    /\ weaknesses = <<>>
    /\ DOMAIN mitigation_to_weaknesses # {}

-----------------------------------------------------------------------------
(* Properties of search *)

\* the last call was a search that returned
Searched == pc = "ready" /\ ret.op = "search" /\ ret.out.raised = None

\* what the last search was asked for
Query == parse_search_query(ret.arg.keywords)
Requested == Len(Query.terms) + Len(Query.phrases)
Logic == upper(ret.arg.search_logic)

Collection(t) ==
    IF t = "techniques" THEN techniques
    ELSE IF t = "weaknesses" THEN weaknesses ELSE mitigations

SearchedTypes ==
    {t \in EntityTypes : determine_search_collections(ret.arg.item_types, t)}

\* the term or phrase matches the name or the description of the item
MatchesItem(literal, item) ==
    \/ re_search(literal, lower(item.name), ret.arg.substring_match)
    \/ re_search(literal, lower(item.description), ret.arg.substring_match)

AllMatch(item) ==
    /\ \A i \in 1..Len(Query.terms) : MatchesItem(Query.terms[i], item)
    /\ \A i \in 1..Len(Query.phrases) : MatchesItem(Query.phrases[i], item)

SomeMatch(item) ==
    \/ \E i \in 1..Len(Query.terms) : MatchesItem(Query.terms[i], item)
    \/ \E i \in 1..Len(Query.phrases) : MatchesItem(Query.phrases[i], item)

\* the ids of the records of type t that the claimed logic includes
Qualifying(t) ==
    {Collection(t)[i].id : i \in {j \in 1..Len(Collection(t)) :
        IF Logic = "AND" THEN AllMatch(Collection(t)[j])
        ELSE SomeMatch(Collection(t)[j])}}

\* C7 as stated: for every query that parses to at least one term or phrase
\* (a query that repeats a term included), the records in the result of an
\* AND search are exactly those that every parsed term and every parsed
\* phrase matches in the name or the description, and the records in the
\* result of an OR search exactly those that at least one matches.
C7_AsStated ==
    (Searched /\ Requested > 0) =>
        \A t \in SearchedTypes :
            Elems(Ids(ret.out.results[t])) = Qualifying(t)

\* the scores of the records of type t, in the order of the result list
ResultScores(t) ==
    LET scored == ret.out.scored[t]
    IN [i \in 1..Len(ret.out.results[t]) |->
          scored[CHOOSE j \in 1..Len(scored) :
                    scored[j].item.id = ret.out.results[t][i].id]]

\* C8 as stated: in the result of an OR search for more than one term or
\* phrase, every record that all of them match is ranked at or above every
\* record that only some of them match: it is listed before it, or their
\* scores tie.
C8_AsStated ==
    (Searched /\ Logic = "OR" /\ Requested > 1) =>
        \A t \in SearchedTypes :
            \A a, b \in 1..Len(ret.out.results[t]) :
                (/\ AllMatch(ret.out.results[t][a])
                 /\ ~AllMatch(ret.out.results[t][b])) =>
                    \/ a < b
                    \/ ResultScores(t)[a].score = ResultScores(t)[b].score

\* C8 amended: in the result of an OR search for more than one term or
\* phrase, the records are listed by descending final score, and a record
\* that all terms and phrases match has a final score at least that of every
\* record that only some of them match and whose unscaled base score is not
\* higher; it is listed before that record when its final score is strictly
\* higher.
C8_Amended ==
    (Searched /\ Logic = "OR" /\ Requested > 1) =>
        \A t \in SearchedTypes :
            \A a, b \in 1..Len(ret.out.results[t]) :
                LET A == ResultScores(t)[a]
                    B == ResultScores(t)[b]
                IN /\ a < b => A.score >= B.score
                   /\ (/\ AllMatch(A.item)
                       /\ ~AllMatch(B.item)
                       /\ A.base_score >= B.base_score) =>
                          /\ A.score >= B.score
                          /\ A.score > B.score => a < b

\* an OR search for two terms listed the technique enumerated second, which
\* both terms match, before the technique enumerated first, which one matches
C8_Witness ==
    /\ Searched
    /\ Logic = "OR"
    /\ Requested = 2
    /\ Ids(ret.out.results.techniques) = <<2, 1>>
    /\ Keys(techniques) = <<1, 2>>
    /\ AllMatch(ret.out.results.techniques[1])
    /\ ~AllMatch(ret.out.results.techniques[2])
    /\ ResultScores("techniques")[1].base_score
          >= ResultScores("techniques")[2].base_score

\* n is the integer truncation of base * max(3/10, found/requested)
IsTruncation(n, base, found, requested) ==
    LET num == IF 10 * found >= 3 * requested THEN found ELSE 3
        den == IF 10 * found >= 3 * requested THEN requested ELSE 10
    IN n * den <= base * num /\ base * num < (n + 1) * den

\* the scores computed by the last search for the records it included
Included ==
    UNION {{ret.out.scored[t][i] : i \in {j \in 1..Len(ret.out.scored[t]) :
                                            ret.out.scored[t][j].included}} :
             t \in EntityTypes}

\* C9 as stated: in an OR search for more than one term or phrase the final
\* score of a matching record is the integer truncation of
\* base_score * max(0.3, matched / requested) and is never below 30% of the
\* base score; in an AND search or a search for a single term the final score
\* is the base score.
C9_AsStated ==
    Searched =>
        \A e \in Included :
            IF Logic = "OR" /\ Requested > 1
            THEN /\ IsTruncation(e.score, e.base_score, e.total_found, Requested)
                 /\ 10 * e.score >= 3 * e.base_score
            ELSE e.score = e.base_score

\* C9 amended: in an OR search for more than one term or phrase the final
\* score of a matching record is the integer truncation of
\* base_score * max(0.3, matched / requested), which is more than 30% of the
\* base score minus one (and may be below 30% of the base score); in an AND
\* search or a search for a single term the final score is the base score.
C9_Amended ==
    Searched =>
        \A e \in Included :
            IF Logic = "OR" /\ Requested > 1
            THEN /\ IsTruncation(e.score, e.base_score, e.total_found, Requested)
                 /\ 10 * e.score > 3 * e.base_score - 10
                 /\ e.score <= e.base_score
            ELSE e.score = e.base_score

\* an OR search for several terms scored a record below 30% of its base score
C9_Witness ==
    /\ Searched
    /\ Logic = "OR"
    /\ Requested > 1
    /\ \E e \in Included :
          /\ 10 * e.score < 3 * e.base_score
          /\ 10 * e.total_found < 3 * Requested

\* the matches counted one by one: 1 for each term and 2 for each phrase
\* found in the text
Counted(text) ==
    Cardinality({i \in 1..Len(Query.terms) :
        re_search(Query.terms[i], lower(text), ret.arg.substring_match)})
    + 2 * Cardinality({i \in 1..Len(Query.phrases) :
        re_search(Query.phrases[i], lower(text), ret.arg.substring_match)})

\* the scores computed by the last search
Scored ==
    UNION {{ret.out.scored[t][i] : i \in 1..Len(ret.out.scored[t])} :
             t \in EntityTypes}

\* C10: each matching term adds 1 and each matching phrase adds 2 to the
\* count of the field it matches in, and the base score of a record is
\* 100 + name_matches + desc_matches when both counts are positive,
\* 50 + name_matches when only the name matches, 10 + desc_matches when only
\* the description matches, and 0 otherwise.
C10_Theorem ==
    Searched =>
        \A e \in Scored :
            LET nm == Counted(e.item.name)
                dm == Counted(e.item.description)
            IN /\ e.name_matches = nm
               /\ e.desc_matches = dm
               /\ BaseScore(e.name_matches, e.desc_matches) =
                     (IF nm > 0 /\ dm > 0 THEN 100 + nm + dm
                      ELSE IF nm > 0 THEN 50 + nm
                      ELSE IF dm > 0 THEN 10 + dm
                      ELSE 0)
               /\ e.included =>
                     e.base_score = BaseScore(e.name_matches, e.desc_matches)
               /\ (nm = 0 /\ dm = 0) => e.score = 0

\* a search for a phrase and a term scored a record whose name holds the
\* phrase and whose description holds the term
C10_Witness ==
    /\ Searched
    /\ Len(Query.phrases) = 1
    /\ Len(Query.terms) = 1
    /\ \E e \in Scored :
          /\ e.included
          /\ e.name_matches = 2
          /\ e.desc_matches = 1
          /\ e.base_score = 103

-----------------------------------------------------------------------------
(* The order of a result list *)

\* the position in the collection of type t of the i-th record of its
\* result list
Position(t, i) ==
    CHOOSE j \in 1..Len(Collection(t)) :
        Collection(t)[j].id = ret.out.results[t][i].id

\* C11: the result list of every type is ordered by non-increasing score,
\* records of equal score are listed in the order in which the collection
\* enumerates them, and the list holds exactly the records whose score is
\* above 0, each of them once.
C11_Theorem ==
    Searched =>
        \A t \in EntityTypes :
            LET results == ret.out.results[t]
                scored == ret.out.scored[t]
            IN /\ \A a, b \in 1..Len(results) :
                     a < b =>
                        /\ ResultScores(t)[a].score >= ResultScores(t)[b].score
                        /\ ResultScores(t)[a].score = ResultScores(t)[b].score
                              => Position(t, a) < Position(t, b)
               /\ \A a \in 1..Len(results) : ResultScores(t)[a].score > 0
               /\ Elems(Ids(results)) =
                     {scored[j].item.id :
                         j \in {k \in 1..Len(scored) : scored[k].score > 0}}

\* a search listed two techniques of equal score in the order of the
\* collection and left out a weakness whose score is 0
C11_Witness ==
    /\ Searched
    /\ Ids(ret.out.results.techniques) = <<1, 2>>
    /\ ResultScores("techniques")[1].score = ResultScores("techniques")[2].score
    /\ ret.out.results.weaknesses = <<>>
    /\ Len(ret.out.scored.weaknesses) = 1
    /\ ret.out.scored.weaknesses[1].score = 0

-----------------------------------------------------------------------------
(* The search_logic argument *)

\* the spellings of AND and of OR in any letter case
Spellings ==
    {"AND", "ANd", "AnD", "And", "aND", "aNd", "anD", "and",
     "OR", "Or", "oR", "or"}

\* C12: search raises ValueError for every search_logic that is not AND or
\* OR in some letter case, whatever the query is (an empty query and a query
\* without usable terms included) and without anything being matched; AND
\* and OR in any letter case are accepted.
C12_Theorem ==
    (pc = "ready" /\ ret.op = "search") =>
        IF ret.arg.search_logic \in Spellings
        THEN ret.out.raised = None
        ELSE /\ ret.out.raised = "ValueError"
             /\ \A t \in EntityTypes : ret.out.scored[t] = <<>>

\* a search for a query without usable terms with an invalid search_logic
\* raised
C12_Witness ==
    /\ pc = "ready"
    /\ ret.op = "search"
    /\ ret.arg.keywords = UnusableQuery
    /\ parse_search_query(ret.arg.keywords) = [terms |-> <<>>, phrases |-> <<>>]
    /\ ret.arg.search_logic = "xor"
    /\ ret.out.raised = "ValueError"

-----------------------------------------------------------------------------
(* Queries without terms and phrases *)

\* C13: when the query parses to no term and no phrase (an empty query, or
\* one of stop words and of words of at most two characters only), search
\* matches nothing and returns techniques, weaknesses and mitigations each
\* mapped to an empty list, whatever types were requested.
C13_Theorem ==
    (Searched /\ Query.terms = <<>> /\ Query.phrases = <<>>) =>
        /\ DOMAIN ret.out.results = {"techniques", "weaknesses", "mitigations"}
        /\ \A t \in EntityTypes :
              /\ ret.out.results[t] = <<>>
              /\ ret.out.scored[t] = <<>>

\* a search of the weaknesses for a stop word and a short word returned,
\* with a weakness loaded
C13_Witness ==
    /\ Searched
    /\ ret.arg.keywords = UnusableQuery
    /\ ret.arg.item_types = Types({"weaknesses"})
    /\ Query = [terms |-> <<>>, phrases |-> <<>>]
    /\ weaknesses # <<>>
    /\ ret.out.results.weaknesses = <<>>

-----------------------------------------------------------------------------
(* Traversals *)

\* a traversal op was called with the id arg and returned
Traversed(op, id) == pc = "ready" /\ ret.op = op /\ ret.arg = id

\* C14: get_techniques_for_weakness(W), get_weaknesses_for_mitigation(M) and
\* get_techniques_for_mitigation(M) return the empty list whenever W, or M,
\* is not a loaded record, even when the reverse index holds an entry for
\* that id.
C14_Theorem ==
    /\ \A W \in WeaknessIds :
          (Traversed("get_techniques_for_weakness", W)
              /\ ~HasKey(weaknesses, W)) => ret.out = <<>>
    /\ \A M \in MitigationIds :
          (/\ \/ Traversed("get_weaknesses_for_mitigation", M)
              \/ Traversed("get_techniques_for_mitigation", M)
           /\ ~HasKey(mitigations, M)) => ret.out = <<>>

\* get_weaknesses_for_mitigation returned the empty list for a mitigation
\* that is not loaded and that a loaded weakness lists, so that the index
\* holds an entry for it
C14_Witness ==
    \E M \in MitigationIds :
        /\ Traversed("get_weaknesses_for_mitigation", M)
        /\ ~HasKey(mitigations, M)
        /\ M \in DOMAIN mitigation_to_weaknesses
        /\ Resolve(weaknesses, mitigation_to_weaknesses[M]) # <<>>
        /\ ret.out = <<>>

\* the ids of the list ids that are keys of the dictionary d, in the order
\* of the list
RECURSIVE LoadedOf(_, _)
LoadedOf(d, ids) ==
    IF ids = <<>> THEN <<>>
    ELSE (IF \E i \in 1..Len(d) : d[i].id = Head(ids) THEN <<Head(ids)>>
          ELSE <<>>) \o LoadedOf(d, Tail(ids))

\* the list out holds the records of the dictionary d with the ids of the
\* list ids that are loaded, one for each occurrence and in the same order
FullRecordsOf(out, d, ids) ==
    /\ Ids(out) = LoadedOf(d, ids)
    /\ \A i \in 1..Len(out) : \E j \in 1..Len(d) : d[j] = out[i]

\* C15: get_weaknesses_for_technique(T) and get_mitigations_for_weakness(W)
\* return full records, one for each listed id that is a loaded record, in
\* the order of the list; ids that do not resolve are skipped and nothing is
\* raised; a T or W that is not loaded yields the empty list.
C15_Theorem ==
    /\ \A T \in TechniqueIds :
          Traversed("get_weaknesses_for_technique", T) =>
              IF \E i \in 1..Len(techniques) : techniques[i].id = T
              THEN FullRecordsOf(ret.out, weaknesses,
                                 Lookup(techniques, T).weaknesses)
              ELSE ret.out = <<>>
    /\ \A W \in WeaknessIds :
          Traversed("get_mitigations_for_weakness", W) =>
              IF \E i \in 1..Len(weaknesses) : weaknesses[i].id = W
              THEN FullRecordsOf(ret.out, mitigations,
                                 Lookup(weaknesses, W).mitigations)
              ELSE ret.out = <<>>

\* get_weaknesses_for_technique returned one record for a technique that
\* lists weaknesses 2 and 1 in this order, of which only weakness 1 is
\* loaded
C15_Witness ==
    \E T \in TechniqueIds :
        /\ Traversed("get_weaknesses_for_technique", T)
        /\ HasKey(techniques, T)
        /\ Lookup(techniques, T).weaknesses = <<2, 1>>
        /\ Ids(weaknesses) = <<1>>
        /\ Ids(ret.out) = <<1>>

-----------------------------------------------------------------------------
(* Objectives of a technique *)

\* get_objectives_for_technique(id) was called without a mapping name
AskedObjectives(id) ==
    /\ pc = "ready"
    /\ ret.op = "get_objectives_for_technique"
    /\ ret.arg = [technique_id |-> id, mapping_name |-> None]

\* the objectives of the active mapping
ActiveObjectives ==
    IF current_mapping_name = None THEN <<>>
    ELSE objective_mappings[current_mapping_name][2]

\* the names, in the order of the mapping, of the active objectives that
\* list the technique id
Listing(id) ==
    LET at == {i \in 1..Len(ActiveObjectives) :
                  \E k \in 1..Len(ActiveObjectives[i].techniques) :
                      ActiveObjectives[i].techniques[k] = id}
    IN [n \in 1..Cardinality(at) |->
          ActiveObjectives[CHOOSE i \in at :
                              Cardinality({j \in at : j <= i}) = n].name]

\* the loaded techniques whose subtechniques hold id
Parents(id) ==
    {techniques[i].id : i \in {j \in 1..Len(techniques) :
        \E k \in 1..Len(techniques[j].subtechniques) :
            techniques[j].subtechniques[k] = id}}

\* C16: get_objectives_for_technique(id) returns the names of the objectives
\* of the active mapping whose technique list holds id; only when there is
\* none does it return the names of the objectives that list a technique
\* whose subtechniques hold id (the one of the lowest id), and nothing when
\* no technique does; the fallback is single-level: an id whose parent no
\* objective lists yields the empty list, whatever lists the parent of the
\* parent.
C16_Theorem ==
    \A id \in HierarchyIds :
        AskedObjectives(id) =>
            /\ Listing(id) # <<>> => ret.out = Listing(id)
            /\ (Listing(id) = <<>> /\ Parents(id) = {}) => ret.out = <<>>
            /\ (Listing(id) = <<>> /\ Parents(id) # {}) =>
                  /\ \E P \in Parents(id) : ret.out = Listing(P)
                  /\ ret.out =
                        Listing(CHOOSE P \in Parents(id) :
                                    \A Q \in Parents(id) : P <= Q)
            /\ (Listing(id) = <<>> /\ \A P \in Parents(id) : Listing(P) = <<>>)
                  => ret.out = <<>>

\* the call returned nothing for technique 3, which only technique 2 holds
\* as a subtechnique, when no objective lists 3 or 2 and an objective lists
\* technique 1, which holds 2 as a subtechnique
C16_Witness ==
    /\ AskedObjectives(3)
    /\ Listing(3) = <<>>
    /\ Parents(3) = {2}
    /\ Listing(2) = <<>>
    /\ Parents(2) = {1}
    /\ Listing(1) # <<>>
    /\ ret.out = <<>>

-----------------------------------------------------------------------------
(* Composition of the results of extensions *)

\* call_extension_function, or the method op that wraps it, returned for
\* the function function_name
Called(op, function_name) ==
    pc = "ready" /\ ret.op = op /\ ret.arg = function_name

\* the calls of the last composition before call i that returned a worksheet
SheetsBefore(i) ==
    {j \in 1..(i - 1) : ret.out.calls[j].returned.type = "Worksheet"}

\* C17 as stated: when an excel function, none of whose implementations
\* returns a string, is called across the loaded extensions, every extension
\* called after one that returned a worksheet is given the worksheet that
\* the last of these returned.
C17_AsStated ==
    (/\ \/ Called("call_extension_function", "get_excel_for_technique")
        \/ Called("add_excel_to_technique", "get_excel_for_technique")
     /\ \A i \in 1..Len(ret.out.calls) :
           ret.out.calls[i].returned.type # "str") =>
        \A i \in 1..Len(ret.out.calls) :
            SheetsBefore(i) # {} =>
                LET last == CHOOSE j \in SheetsBefore(i) :
                                \A k \in SheetsBefore(i) : k <= j
                IN ret.out.calls[i].given = ret.out.calls[last].returned.sheet

\* the loaded extensions whose function function_name returns a value other
\* than None
Contributing(function_name) ==
    {i \in 1..Len(extension_modules) :
        extension_modules[i].module[function_name]
            \in {"text", "blank", "write", "copy"}}

\* the string that the function function_name of the i-th loaded extension
\* returns
Returns(i, function_name) ==
    IF extension_modules[i].module[function_name] = "text"
    THEN <<extension_modules[i].module.mark>>
    ELSE <<>>

\* the strings returned by the first n loaded extensions that contribute,
\* concatenated in the order of registration
RECURSIVE Concatenated(_, _)
Concatenated(n, function_name) ==
    IF n = 0 THEN <<>>
    ELSE Concatenated(n - 1, function_name)
         \o (IF n \in Contributing(function_name)
             THEN Returns(n, function_name) ELSE <<>>)

\* C18: when every extension that contributes to a call returns a string,
\* call_extension_function returns the concatenation of these strings in the
\* order of registration; an extension without the function, or whose
\* function returns None, contributes nothing, and the result is the empty
\* string when no extension contributes.
C18_Theorem ==
    \A function_name \in FunctionNames :
        (/\ Called("call_extension_function", function_name)
         /\ \A i \in Contributing(function_name) :
               extension_modules[i].module[function_name]
                   \in {"text", "blank"}) =>
            /\ ret.out.result.type = "str"
            /\ ret.out.result.text =
                  Concatenated(Len(extension_modules), function_name)
            /\ Contributing(function_name) = {} => ret.out.result.text = <<>>

\* the call returned the strings of the first and of the third extension,
\* concatenated, when the function of the second returns None
C18_Witness ==
    /\ Called("call_extension_function", "get_markdown_for_technique")
    /\ Len(extension_modules) = 3
    /\ Contributing("get_markdown_for_technique") = {1, 3}
    /\ extension_modules[2].module.get_markdown_for_technique = "none"
    /\ ret.out.result = [type |-> "str", text |-> <<"a", "c">>]

\* the loaded extensions, those whose function function_name raises taken as
\* not exposing the function
WithoutRaising(function_name) ==
    [i \in 1..Len(extension_modules) |->
        IF extension_modules[i].module[function_name] = "raises"
        THEN [extension_modules[i] EXCEPT !.module[function_name] = "missing"]
        ELSE extension_modules[i]]

\* C19: an exception raised by the function of one extension does not
\* propagate and discards nothing: the call returns, and leaves the
\* worksheets as, the composition of the results of the other extensions,
\* those called before and those called after, exactly as if the raising
\* extension did not expose the function.
C19_Theorem ==
    \A function_name \in FunctionNames :
        Called("call_extension_function", function_name) =>
            LET others == call_extension_function(
                              WithoutRaising(function_name), function_name,
                              NewSheets,
                              IF function_name = "get_excel_for_technique"
                              THEN 1 ELSE 0)
            IN /\ ~ret.out.raised
               /\ ret.out.result = others.result
               /\ ret.out.sheets = others.sheets

\* the function of the second of three extensions raised, and the call
\* returned the strings of the first and the third
C19_Witness ==
    /\ Called("call_extension_function", "get_markdown_for_technique")
    /\ Len(extension_modules) = 3
    /\ extension_modules[1].module.get_markdown_for_technique = "text"
    /\ extension_modules[2].module.get_markdown_for_technique = "raises"
    /\ extension_modules[3].module.get_markdown_for_technique = "text"
    /\ ret.out.calls[2].raised
    /\ ret.out.result = [type |-> "str", text |-> <<"a", "c">>]

-----------------------------------------------------------------------------
(* Loading of the extensions *)

\* the configured extensions whose folder resolves, whose code is there and
\* whose code loads
Loadable ==
    {i \in 1..Len(disk.extension.extensions) :
        /\ disk.extension.extensions[i].folder_path = "resolved"
        /\ disk.extension.extensions[i].code = "ok"}

\* C20: the construction of an instance with extensions enabled succeeds
\* whatever the configured extensions do; an extension whose folder path
\* does not resolve, whose code is absent or whose code raises when loaded
\* is skipped, and every other configured extension is registered under its
\* name, with its module, in the order of the configuration; without a
\* configuration file the registry is empty and nothing is raised.
C20_Theorem ==
    pc # "new" =>
        /\ pc = "ready"
        /\ error = None
        /\ disk.extension.config = "absent" => extension_modules = <<>>
        /\ disk.extension.config = "list" =>
              /\ Len(extension_modules) = Cardinality(Loadable)
              /\ \A i \in Loadable :
                    \E j \in 1..Len(extension_modules) :
                        /\ extension_modules[j].name =
                              disk.extension.extensions[i].name
                        /\ extension_modules[j].module =
                              disk.extension.extensions[i].module
                        /\ j = Cardinality({k \in Loadable : k <= i})

\* an instance was constructed whose second configured extension has no
\* code and whose first and third are registered
C20_Witness ==
    /\ pc = "ready"
    /\ ret.op = "__init__"
    /\ disk.extension.config = "list"
    /\ Len(disk.extension.extensions) = 3
    /\ disk.extension.extensions[1].folder_path = "unresolved"
    /\ disk.extension.extensions[2].code = "raises"
    /\ Loadable = {3}
    /\ Len(extension_modules) = 1
    /\ extension_modules[1].name = "c"

-----------------------------------------------------------------------------
(* Objective mappings *)

\* the entries of the mapping file n that validate, as they are stored: in
\* the order of the document
StoredEntries(n) ==
    LET entries == disk.mappings[n].entries
        at == {i \in 1..Len(entries) : entries[i].valid}
    IN [k \in 1..Cardinality(at) |->
          LET i == CHOOSE j \in at : Cardinality({h \in at : h <= j}) = k
          IN [name |-> entries[i].name, techniques |-> entries[i].techniques]]

\* this step is a call of load_objective_mapping(n)
LoadsMapping(n) ==
    /\ pc = "ready"
    /\ disk' = disk
    /\ ret'.op = "load_objective_mapping"
    /\ ret'.arg = n

\* C21: load_objective_mapping on a document whose top level is a list
\* returns True, stores under the mapping filename exactly the entries that
\* validate, in the order of the document, and makes that mapping current;
\* it returns False only when the file is missing, cannot be read or parsed,
\* or is not a list.
C21_Theorem ==
    [][\A n \in MappingNames :
          LoadsMapping(n) =>
              IF disk.mappings[n].state = "list"
              THEN /\ ret'.out = TRUE
                   /\ objective_mappings'[n] = <<TRUE, StoredEntries(n)>>
                   /\ current_mapping_name' = n
              ELSE /\ ret'.out = FALSE
                   /\ disk.mappings[n].state \in {"absent", "broken", "notlist"}
      ]_vars

\* load_objective_mapping returned True for a document of three entries and
\* stored the first and the third
C21_Witness ==
    /\ pc = "ready"
    /\ ret.op = "load_objective_mapping"
    /\ ret.out = TRUE
    /\ disk.mappings[ret.arg].state = "list"
    /\ Len(disk.mappings[ret.arg].entries) = 3
    /\ ~disk.mappings[ret.arg].entries[2].valid
    /\ current_mapping_name = ret.arg
    /\ Len(objective_mappings[ret.arg][2]) = 2
    /\ objective_mappings[ret.arg][2][2].name = "analyse"

-----------------------------------------------------------------------------
(* The mitigations of a technique *)

\* the mitigation lists of the weaknesses with the ids of the list ids that
\* are loaded, one after the other
RECURSIVE Walk(_)
Walk(ids) ==
    IF ids = <<>> THEN <<>>
    ELSE (IF \E i \in 1..Len(weaknesses) : weaknesses[i].id = Head(ids)
          THEN Lookup(weaknesses, Head(ids)).mitigations
          ELSE <<>>) \o Walk(Tail(ids))

\* the first position of x in the sequence s
FirstAt(x, s) == CHOOSE i \in 1..Len(s) : s[i] = x /\ \A j \in 1..(i - 1) : s[j] # x

\* C24: get_mit_list_for_technique(T) returns the mitigation ids listed by
\* the weaknesses of T that are loaded, each id once, in the order of their
\* first occurrence when the weakness list of T and the mitigation list of
\* each weakness are walked in order; it returns the empty list for a T that
\* is not loaded.
C24_Theorem ==
    \A T \in TechniqueIds :
        Traversed("get_mit_list_for_technique", T) =>
            IF \E i \in 1..Len(techniques) : techniques[i].id = T
            THEN LET walk == Walk(Lookup(techniques, T).weaknesses)
                 IN /\ {ret.out[i] : i \in 1..Len(ret.out)}
                          = {walk[i] : i \in 1..Len(walk)}
                    /\ \A a, b \in 1..Len(ret.out) :
                          a < b => /\ ret.out[a] # ret.out[b]
                                   /\ FirstAt(ret.out[a], walk)
                                         < FirstAt(ret.out[b], walk)
            ELSE ret.out = <<>>

\* the call returned mitigation 2 before mitigation 1, each once, for a
\* technique whose weaknesses list mitigation 2 twice and then mitigation 1
C24_Witness ==
    \E T \in TechniqueIds :
        /\ Traversed("get_mit_list_for_technique", T)
        /\ HasKey(techniques, T)
        /\ Walk(Lookup(techniques, T).weaknesses) = <<2, 2, 1>>
        /\ ret.out = <<2, 1>>

-----------------------------------------------------------------------------
(* Presentation hints: colour, prefix and suffix of a technique *)

\* the three colours and the three glyphs (each glyph is followed by a space);
\* "red ", "yellow " and "green " stand for the circle emoji of that colour
PlaceholderColour == "#F4CCCC"
PartialColour == "#FCE5CD"
CompleteColour == "#D9EAD3"
PlaceholderGlyph == "red "
PartialGlyph == "yellow "
CompleteGlyph == "green "

Value(v) == [raised |-> FALSE, value |-> v]
Raises(e) == [raised |-> TRUE, value |-> e]

\* global_solveit_config.get_colour_for_technique(kb, t_id): t is None for an
\* unknown id and t.get raises
config_get_colour_for_technique(techs, weaks, t_id) ==
    IF ~get_technique(techs, t_id) THEN Raises("AttributeError")
    ELSE LET t == Lookup(techs, t_id)
         IN IF Len(t.weaknesses) = 0 THEN Value(PlaceholderColour)
            ELSE IF t.description = NoText
                    \/ Len(get_mit_list_for_technique(techs, weaks, t_id)) = 0
                 THEN Value(PartialColour)
                 ELSE Value(CompleteColour)

\* global_solveit_config.get_technique_prefix(kb, t_id)
config_get_technique_prefix(techs, weaks, t_id) ==
    IF ~get_technique(techs, t_id) THEN Raises("AttributeError")
    ELSE LET t == Lookup(techs, t_id)
         IN IF Len(t.weaknesses) = 0 THEN Value(PlaceholderGlyph)
            ELSE IF t.description = NoText
                    \/ Len(get_mit_list_for_technique(techs, weaks, t_id)) = 0
                 THEN Value(PartialGlyph)
                 ELSE Value(CompleteGlyph)

\* a fallback that looks at the description before the weakness list
FallbackColour_DescriptionFirst(techs, weaks, technique_id) ==
    IF ~get_technique(techs, technique_id) THEN Value(PlaceholderColour)
    ELSE LET technique == Lookup(techs, technique_id)
         IN IF technique.description = NoText THEN Value(PartialColour)
            ELSE IF Len(technique.weaknesses) = 0
                 THEN Value(PlaceholderColour)
                 ELSE IF Len(get_mit_list_for_technique(techs, weaks,
                                                        technique_id)) = 0
                      THEN Value(PartialColour)
                      ELSE Value(CompleteColour)

\* the fallback of get_colour_for_technique
FallbackColour(techs, weaks, technique_id) ==
    IF ~get_technique(techs, technique_id) THEN Value(PlaceholderColour)
    ELSE LET technique == Lookup(techs, technique_id)
         IN IF Len(technique.weaknesses) = 0 THEN Value(PlaceholderColour)
            ELSE IF technique.description = NoText
                    \/ Len(get_mit_list_for_technique(techs, weaks,
                                                      technique_id)) = 0
                 THEN Value(PartialColour)
                 ELSE Value(CompleteColour)

\* the fallback of get_technique_prefix
FallbackPrefix(techs, weaks, technique_id) ==
    IF ~get_technique(techs, technique_id) THEN Value(PlaceholderGlyph)
    ELSE LET technique == Lookup(techs, technique_id)
         IN IF Len(technique.weaknesses) = 0 THEN Value(PlaceholderGlyph)
            ELSE IF technique.description = NoText
                    \/ Len(get_mit_list_for_technique(techs, weaks,
                                                      technique_id)) = 0
                 THEN Value(PartialGlyph)
                 ELSE Value(CompleteGlyph)

\* self.global_config and hasattr(self.global_config, name): only the shipped
\* file defines the three functions
Delegates(config) == config # None /\ config = "shipped"

\* get_colour_for_technique(technique_id)
get_colour_for_technique(config, techs, weaks, technique_id) ==
    IF Delegates(config)
    THEN config_get_colour_for_technique(techs, weaks, technique_id)
    ELSE FallbackColour(techs, weaks, technique_id)

\* get_technique_prefix(technique_id)
get_technique_prefix(config, techs, weaks, technique_id) ==
    IF Delegates(config)
    THEN config_get_technique_prefix(techs, weaks, technique_id)
    ELSE FallbackPrefix(techs, weaks, technique_id)

\* get_technique_suffix(technique_id): the shipped function returns ""
get_technique_suffix(config, technique_id) ==
    IF Delegates(config) THEN Value("") ELSE Value("")

GetColourForTechnique(technique_id) ==
    /\ pc = "ready"
    /\ ret' = [op |-> "get_colour_for_technique", arg |-> technique_id,
               out |-> get_colour_for_technique(global_config, techniques,
                                                weaknesses, technique_id)]
    /\ UNCHANGED <<pc, error, disk, edits, kb, indices, mapping,
                   extension_modules, global_config, failed_file>>

GetTechniquePrefix(technique_id) ==
    /\ pc = "ready"
    /\ ret' = [op |-> "get_technique_prefix", arg |-> technique_id,
               out |-> get_technique_prefix(global_config, techniques,
                                            weaknesses, technique_id)]
    /\ UNCHANGED <<pc, error, disk, edits, kb, indices, mapping,
                   extension_modules, global_config, failed_file>>

GetTechniqueSuffix(technique_id) ==
    /\ pc = "ready"
    /\ ret' = [op |-> "get_technique_suffix", arg |-> technique_id,
               out |-> get_technique_suffix(global_config, technique_id)]
    /\ UNCHANGED <<pc, error, disk, edits, kb, indices, mapping,
                   extension_modules, global_config, failed_file>>

\* data directories of one technique with or without a description, whose
\* weaknesses 1 (loaded) and 2 (no file) it may list, with or without the
\* global configuration file
ColourDisks ==
    {Disk([techniques |-> Dir(<<NamedTechnique(1, <<n, d>>)>>),
           weaknesses |-> Dir(<<OkFile(WeaknessRec(1, ms))>>),
           mitigations |-> Dir(<<OkFile(MitigationRec(1))>>)],
          PlainMappings,
          [NoExtension EXCEPT !.global_config = g], FALSE) :
        n \in {NoText, ram}, d \in {NoText, ram}, ms \in {<<>>, <<1>>},
        g \in {"absent", "raises", "shipped"}}

ColourInit ==
    /\ Fresh
    /\ \E dk \in ColourDisks, ws \in {<<>>, <<1>>, <<2>>, <<2, 1>>} :
          disk = [dk EXCEPT !.techniques.files[1].rec.weaknesses = ws]

ColourNext ==
    \/ \E e \in BOOLEAN : Construct(DEFAULT_MAPPING_FILE, e)
    \/ \E t \in 1..2 : GetColourForTechnique(t)
    \/ \E t \in 1..2 : GetTechniquePrefix(t)
    \/ \E t \in 1..2 : GetTechniqueSuffix(t)

ColourSpec == ColourInit /\ [][ColourNext]_vars

\* the mitigations reachable from a technique record through loaded weaknesses
MitigationClosure(t) ==
    {m \in MitigationIds :
        \E i \in 1..Len(t.weaknesses) :
           /\ HasKey(weaknesses, t.weaknesses[i])
           /\ InList(m, Lookup(weaknesses, t.weaknesses[i]).mitigations)}

\* the maturity of a technique record as the hints present it
Tier(t) ==
    IF t.weaknesses = <<>> THEN "placeholder"
    ELSE IF t.description = NoText \/ MitigationClosure(t) = {} THEN "partial"
    ELSE "complete"

HintOf(op, tier) ==
    IF op = "get_colour_for_technique"
    THEN (CASE tier = "placeholder" -> PlaceholderColour
            [] tier = "partial" -> PartialColour
            [] OTHER -> CompleteColour)
    ELSE (CASE tier = "placeholder" -> PlaceholderGlyph
            [] tier = "partial" -> PartialGlyph
            [] OTHER -> CompleteGlyph)

Hinted == ret.op \in {"get_colour_for_technique", "get_technique_prefix"}
             /\ HasKey(techniques, ret.arg)

\* C22: with the fallback and with the shipped global configuration alike,
\* the colour and the prefix of a loaded technique are the placeholder ones
\* when its weakness list is empty, whatever its name and description; a
\* technique with weaknesses gets the partial ones when its description is
\* empty or no mitigation is reachable from it, and the complete ones
\* otherwise
C22_Theorem ==
    Hinted =>
       /\ ret.out = Value(HintOf(ret.op, Tier(Lookup(techniques, ret.arg))))
       /\ Lookup(techniques, ret.arg).weaknesses = <<>> =>
             ret.out.value \in {PlaceholderColour, PlaceholderGlyph}

\* the shipped configuration colours a described technique without weaknesses
C22_Witness ==
    /\ Hinted
    /\ ret.op = "get_colour_for_technique"
    /\ global_config = "shipped"
    /\ Lookup(techniques, ret.arg).weaknesses = <<>>
    /\ Lookup(techniques, ret.arg).description = ram
    /\ ret.out = Value(PlaceholderColour)

-----------------------------------------------------------------------------
(* Queries of a constructed instance *)

\* kb.get_technique(id), kb.get_weakness(id), kb.get_mitigation(id):
\* self.<collection>.get(id)
GetItem(t, id) ==
    /\ pc = "ready"
    /\ ret' = [op |-> "get_item",
               arg |-> [type |-> t, id |-> id],
               out |-> LET d == IF t = "techniques" THEN techniques
                                ELSE IF t = "weaknesses" THEN weaknesses
                                ELSE mitigations
                       IN IF HasKey(d, id) THEN <<Lookup(d, id)>> ELSE <<>>]
    /\ UNCHANGED <<pc, error, disk, edits, kb, indices, mapping,
                   extension_modules, global_config, failed_file>>

\* kb.list_techniques(), kb.list_weaknesses(), kb.list_mitigations():
\* sorted(self.<collection>.keys())
ListItems(t) ==
    /\ pc = "ready"
    /\ ret' = [op |-> "list_items", arg |-> t,
               out |-> list_techniques(IF t = "techniques" THEN techniques
                                       ELSE IF t = "weaknesses" THEN weaknesses
                                       ELSE mitigations)]
    /\ UNCHANGED <<pc, error, disk, edits, kb, indices, mapping,
                   extension_modules, global_config, failed_file>>

\* the second mapping file lists another objective
TwoMappings ==
    [n \in MappingNames |->
        IF n = DEFAULT_MAPPING_FILE THEN MappingFile("list", OneObjective)
        ELSE MappingFile("list", <<Entry(TRUE, "analyse", <<1, 2>>)>>)]

\* data directories of one technique, one weakness and one mitigation, with
\* one or two mapping files
QueryInit ==
    /\ Fresh
    /\ \E dk \in ColourDisks, ws \in {<<>>, <<1>>}, mp \in {PlainMappings, TwoMappings} :
          /\ dk.techniques.files[1].rec.name = ram
          /\ disk = [dk EXCEPT !.techniques.files[1].rec.weaknesses = ws,
                               !.mappings = mp]

QueryNext ==
    \/ \E mapping_file \in MappingNames, e \in BOOLEAN : Construct(mapping_file, e)
    \/ \E n \in MappingNames : LoadObjectiveMapping(n)
    \/ \E t \in EntityTypes, id \in 1..2 : GetItem(t, id)
    \/ \E t \in EntityTypes : ListItems(t)
    \/ \E t \in 1..2 : GetWeaknessesForTechnique(t)
    \/ \E w \in 1..2 : GetMitigationsForWeakness(w)
    \/ \E w \in 1..2 : GetTechniquesForWeakness(w)
    \/ \E m \in 1..2 : GetWeaknessesForMitigation(m)
    \/ \E m \in 1..2 : GetTechniquesForMitigation(m)
    \/ \E t \in 1..2 : GetMitListForTechnique(t)
    \/ \E t \in 1..2, n \in {None, "carrier.json"} : GetObjectivesForTechnique(t, n)
    \/ \E n \in {None, "carrier.json"} : ListObjectives(n)
    \/ \E l \in {"AND", "OR"} : Search(ram, NoTypes, FALSE, l)
    \/ \E t \in 1..2 : GetColourForTechnique(t)
    \/ \E t \in 1..2 : GetTechniquePrefix(t)
    \/ \E t \in 1..2 : GetTechniqueSuffix(t)

QuerySpec == QueryInit /\ [][QueryNext]_vars

QueryOps ==
    {"get_item", "list_items", "get_weaknesses_for_technique",
     "get_mitigations_for_weakness", "get_techniques_for_weakness",
     "get_weaknesses_for_mitigation", "get_techniques_for_mitigation",
     "get_mit_list_for_technique", "get_objectives_for_technique",
     "list_objectives", "search", "get_colour_for_technique",
     "get_technique_prefix", "get_technique_suffix"}

\* a step in which a query of a constructed instance returns
QueryReturns == pc = "ready" /\ ret' # ret /\ ret'.op \in QueryOps

-----------------------------------------------------------------------------
(* reporting_scripts/trwm2json.py: mitigation names of a weakness row *)

\* a row of the mitigations table as a dict: keys are the keys it has, name
\* and id the values of 'name' and 'id'; the id 0 is the empty string
MitigationRow(keys, name, id) == [keys |-> keys, name |-> name, id |-> id]

\* an argument that may be None
Some(text) == [none |-> FALSE, text |-> text]
Nothing == [none |-> TRUE, text |-> <<>>]

\* a returned id, or None
FoundId(id) == [none |-> FALSE, id |-> id]
NoId == [none |-> TRUE, id |-> 0]

\* a loop that compares the names of the table as they are written
RECURSIVE FindLoop_CaseOfTable(_, _)
FindLoop_CaseOfTable(search_name, mitigations_list) ==
    IF mitigations_list = <<>> THEN NoId
    ELSE LET mitigation == Head(mitigations_list)
         IN IF /\ "name" \in mitigation.keys
               /\ "id" \in mitigation.keys
               /\ strip(mitigation.name) = search_name
            THEN FoundId(mitigation.id)
            ELSE FindLoop_CaseOfTable(search_name, Tail(mitigations_list))

\* the loop of find_mitigation_id_by_name over mitigations_list
RECURSIVE FindLoop(_, _)
FindLoop(search_name, mitigations_list) ==
    IF mitigations_list = <<>> THEN NoId
    ELSE LET mitigation == Head(mitigations_list)
         IN IF /\ "name" \in mitigation.keys
               /\ "id" \in mitigation.keys
               /\ lower(strip(mitigation.name)) = search_name
            THEN FoundId(mitigation.id)
            ELSE FindLoop(search_name, Tail(mitigations_list))

\* find_mitigation_id_by_name(mitigation_name, mitigations_list)
find_mitigation_id_by_name(mitigation_name, mitigations_list) ==
    IF mitigation_name.none \/ mitigation_name.text = <<>>
       \/ strip(mitigation_name.text) = <<>>
    THEN NoId
    ELSE FindLoop(lower(strip(mitigation_name.text)), mitigations_list)

\* names of the mitigations table and of the cells of a weakness row
TrwmNames ==
    {<<>>, ram, <<"R", "a", "m">>, <<Space>> \o ram \o <<Space>>, log}

\* rows of the mitigations table, with and without the two keys
MitigationRows ==
    {MitigationRow({"id", "name"}, n, i) : n \in TrwmNames, i \in 0..2}
    \cup {MitigationRow({"name"}, ram, 0), MitigationRow({"id"}, <<>>, 1)}

MaxRows == 2

MitigationLists == SeqsUpTo(MitigationRows, MaxRows)

SearchedNames ==
    {Nothing} \cup {Some(n) : n \in TrwmNames \cup {<<Space>>, usb,
                                     <<Space, "R", "A", "m">>}}

\* a call that has been made and has not returned
Pending(function, args) == [op |-> "call", arg |-> [function |-> function, args |-> args], out |-> 0]

Awaits(function) == ret.op = "call" /\ ret.arg.function = function

FindMitigationIdByName ==
    /\ Awaits("find_mitigation_id_by_name")
    /\ ret' = [op |-> "find_mitigation_id_by_name",
               arg |-> ret.arg.args,
               out |-> find_mitigation_id_by_name(
                           ret.arg.args.mitigation_name,
                           ret.arg.args.mitigations_list)]
    /\ UNCHANGED <<pc, error, disk, edits, kb, indices, mapping,
                   extension_modules, global_config, failed_file>>

\* the rows of mitigations_list that have both keys and whose name is the
\* text, both trimmed and in lower case
Matching(text, mitigations_list) ==
    {i \in 1..Len(mitigations_list) :
        /\ {"name", "id"} \subseteq mitigations_list[i].keys
        /\ lower(strip(mitigations_list[i].name)) = lower(strip(text))}

Blank(name) == name.none \/ strip(name.text) = <<>>

Finds == ret.op = "find_mitigation_id_by_name"

\* C25: find_mitigation_id_by_name returns the id of the first row of the
\* list whose name is the searched name, both trimmed and compared without
\* regard to letter case, and None when the searched name is None, empty or
\* blank, when the list is empty and when no row matches
C25_Theorem ==
    Finds =>
       LET name == ret.arg.mitigation_name
           list == ret.arg.mitigations_list
           hits == IF Blank(name) THEN {} ELSE Matching(name.text, list)
       IN IF hits = {} THEN ret.out = NoId
          ELSE \E i \in hits :
                  /\ \A j \in hits : i <= j
                  /\ ret.out = FoundId(list[i].id)

\* two rows match " RAm" and the id of the first one is returned
C25_Witness ==
    /\ Finds
    /\ ret.arg.mitigation_name = Some(<<Space, "R", "A", "m">>)
    /\ Len(ret.arg.mitigations_list) = 2
    /\ Matching(ret.arg.mitigation_name.text, ret.arg.mitigations_list) = {1, 2}
    /\ ret.arg.mitigations_list[1].name = <<"R", "a", "m">>
    /\ ret.arg.mitigations_list[1].id = 2
    /\ ret.arg.mitigations_list[2].id = 1
    /\ ret.out = FoundId(2)

\* sub in text
In(sub, text) ==
    \E i \in 0..(Len(text) - Len(sub)) : SubSeq(text, i + 1, i + Len(sub)) = sub

MitigationWord == <<"m", "i", "t", "i", "g", "a", "t", "i", "o", "n">>

\* the columns whose header starts with the word
MitigationColumns_StartsWith(headers) ==
    SelectSeq([i \in 1..Len(headers) |-> i],
              LAMBDA i : /\ Len(headers[i]) >= Len(MitigationWord)
                         /\ SubSeq(lower(headers[i]), 1, Len(MitigationWord))
                               = MitigationWord)

\* the first loop of process_weakness_mitigations: the indices (from 1) of
\* the headers that hold the word, in column order
MitigationColumns(headers) ==
    SelectSeq([i \in 1..Len(headers) |-> i],
              LAMBDA i : In(MitigationWord, lower(headers[i])))

\* the second loop of process_weakness_mitigations
RECURSIVE ProcessColumns(_, _, _, _)
ProcessColumns(mitigation_ids, columns, weakness_row, mitigations_list) ==
    IF columns = <<>> THEN mitigation_ids
    ELSE LET col_index == Head(columns)
             mitigation_name == strip(weakness_row[col_index])
             mitigation_id == find_mitigation_id_by_name(Some(mitigation_name),
                                                         mitigations_list)
         IN ProcessColumns(
               IF /\ col_index <= Len(weakness_row)
                  /\ mitigation_name # <<>>
                  /\ ~mitigation_id.none
                  /\ mitigation_id.id # 0
               THEN Append(mitigation_ids, mitigation_id.id)
               ELSE mitigation_ids,
               Tail(columns), weakness_row, mitigations_list)

\* process_weakness_mitigations(weakness_row, headers, mitigations_list)
process_weakness_mitigations(weakness_row, headers, mitigations_list) ==
    ProcessColumns(<<>>, MitigationColumns(headers), weakness_row,
                   mitigations_list)

MaxColumns == 3

\* headers: "name", "Mitigation 1", "a mitigation" and "Mitigatio"
HeaderTexts ==
    {<<"n", "a", "m", "e">>,
     <<"M", "i", "t", "i", "g", "a", "t", "i", "o", "n", Space, "1">>,
     <<"a", Space>> \o MitigationWord,
     <<"M", "i", "t", "i", "g", "a", "t", "i", "o">>}

\* cells: "", " ", " Ram ", "usb"
CellTexts == {<<>>, <<Space>>, <<Space, "R", "a", "m", Space>>, usb}

\* mitigations tables: none; ram and log; ram twice and usb with an empty id
MitigationTables ==
    {<<>>,
     <<MitigationRow({"id", "name"}, ram, 1),
       MitigationRow({"id", "name"}, log, 2)>>,
     <<MitigationRow({"id", "name"}, ram, 2),
       MitigationRow({"id", "name"}, ram, 1),
       MitigationRow({"id", "name"}, usb, 0)>>}

ProcessWeaknessMitigations ==
    /\ Awaits("process_weakness_mitigations")
    /\ ret' = [op |-> "process_weakness_mitigations",
               arg |-> ret.arg.args,
               out |-> process_weakness_mitigations(
                           ret.arg.args.weakness_row, ret.arg.args.headers,
                           ret.arg.args.mitigations_list)]
    /\ UNCHANGED <<pc, error, disk, edits, kb, indices, mapping,
                   extension_modules, global_config, failed_file>>

\* one call of one of the two functions, with its arguments
TrwmInit ==
    /\ pc = "new"
    /\ error = None
    /\ edits = 0
    /\ techniques = <<>>
    /\ weaknesses = <<>>
    /\ mitigations = <<>>
    /\ weakness_to_techniques = EmptyIndex
    /\ mitigation_to_weaknesses = EmptyIndex
    /\ mitigation_to_techniques = EmptyIndex
    /\ objective_mappings = NoMappings
    /\ current_mapping_name = None
    /\ extension_modules = <<>>
    /\ global_config = None
    /\ failed_file = <<>>
    /\ disk = Disk([techniques |-> MissingDir, weaknesses |-> MissingDir,
                    mitigations |-> MissingDir],
                   PlainMappings, NoExtension, FALSE)
    /\ \/ \E n \in SearchedNames, l \in MitigationLists :
             ret = Pending("find_mitigation_id_by_name",
                        [mitigation_name |-> n, mitigations_list |-> l])
       \/ \E r \in SeqsUpTo(CellTexts, MaxColumns),
             h \in SeqsUpTo(HeaderTexts, MaxColumns),
             l \in MitigationTables :
             ret = Pending("process_weakness_mitigations",
                        [weakness_row |-> r, headers |-> h,
                         mitigations_list |-> l])

TrwmNext ==
    \/ FindMitigationIdByName
    \/ ProcessWeaknessMitigations

TrwmSpec == TrwmInit /\ [][TrwmNext]_vars

Processes == ret.op = "process_weakness_mitigations"

\* the id that the table gives for the trimmed text of a cell: 0 when the
\* text is empty, when no row matches and when the id of the row is empty
CellId(cell, mitigations_list) ==
    LET hits == Matching(cell, mitigations_list)
    IN IF strip(cell) = <<>> \/ hits = {} THEN 0
       ELSE mitigations_list[CHOOSE i \in hits : \A j \in hits : i <= j].id

\* the columns of the row that contribute an id
ContributingColumns(weakness_row, headers, mitigations_list) ==
    {i \in 1..Len(headers) :
        /\ In(MitigationWord, lower(headers[i]))
        /\ i <= Len(weakness_row)
        /\ CellId(weakness_row[i], mitigations_list) # 0}

LoadedMapping(maps, name) == name \in DOMAIN maps /\ maps[name][1]

\* this step is a call of load_objective_mapping that returns False
FailedLoad ==
    /\ \E n \in MappingNames : LoadsMapping(n)
    /\ ret'.out = FALSE

\* C27: current_mapping_name is always None or a key of objective_mappings,
\* and a load_objective_mapping that fails leaves objective_mappings and
\* current_mapping_name as they were, so that the mapping that was active
\* stays active
C27_Theorem ==
    /\ [](current_mapping_name = None
            \/ LoadedMapping(objective_mappings, current_mapping_name))
    /\ [][FailedLoad => /\ objective_mappings' = objective_mappings
                        /\ current_mapping_name' = current_mapping_name]_vars

\* a load of a second mapping has failed and the first is still active
C27_Witness ==
    /\ pc = "ready"
    /\ ret.op = "load_objective_mapping"
    /\ ret.out = FALSE
    /\ ret.arg = "carrier.json"
    /\ disk.mappings["carrier.json"].state = "broken"
    /\ current_mapping_name = DEFAULT_MAPPING_FILE
    /\ LoadedMapping(objective_mappings, DEFAULT_MAPPING_FILE)

\* the mapping that is current after construction with mapping_file
ActiveAfter(mapping_file) ==
    IF disk.mappings[mapping_file].state = "list" THEN mapping_file
    ELSE IF disk.mappings[DEFAULT_MAPPING_FILE].state = "list"
    THEN DEFAULT_MAPPING_FILE
    ELSE None

AsksObjectives ==
    /\ pc = "ready"
    /\ ret.op \in {"list_objectives", "get_objectives_for_technique"}

\* C28: where the record directories load, the constructor returns whatever
\* the mapping files are: the requested mapping is current if it loads, else
\* the default one if that loads, else none; and with no current mapping
\* list_objectives and get_objectives_for_technique return empty lists for
\* every argument
C28_Theorem ==
    /\ [][\A mapping_file \in MappingNames :
             Construct(mapping_file, FALSE) =>
                /\ pc' = "ready"
                /\ current_mapping_name' = ActiveAfter(mapping_file)
                /\ \A n \in MappingNames :
                      LoadedMapping(objective_mappings', n)
                         <=> n = ActiveAfter(mapping_file)]_vars
    /\ [](AsksObjectives /\ current_mapping_name = None => ret.out = <<>>)

\* neither mapping file could be loaded, and the objectives of a technique
\* under a named mapping are empty
C28_Witness ==
    /\ AsksObjectives
    /\ current_mapping_name = None
    /\ ret.op = "get_objectives_for_technique"
    /\ ret.arg.mapping_name = "carrier.json"
    /\ ret.arg.technique_id = 1
    /\ disk.mappings["carrier.json"].state = "broken"
    /\ disk.mappings[DEFAULT_MAPPING_FILE].state = "absent"
    /\ ret.out = <<>>

\* C29: every record that passes the AND or OR inclusion test of a search
\* gets a positive final score: its base score is at least 11, its score
\* after the scaling of an OR search for several terms is at least 3, so
\* the test score > 0 drops none of them from the result
C29_Theorem ==
    Searched =>
        \A t \in EntityTypes :
            \A j \in 1..Len(ret.out.scored[t]) :
                LET e == ret.out.scored[t][j]
                IN e.included =>
                      /\ e.base_score >= 11
                      /\ e.score >= 3
                      /\ ~(Logic = "OR" /\ Requested > 1) => e.score >= 11
                      /\ \E i \in 1..Len(ret.out.results[t]) :
                            ret.out.results[t][i].id = e.item.id

\* an OR search scored 3 a record whose description holds one of several
\* terms
C29_Witness ==
    /\ Searched
    /\ Logic = "OR"
    /\ \E e \in Included :
          /\ e.name_matches = 0
          /\ e.base_score = 11
          /\ e.score = 3

\* get_objectives_for_technique(id, name) was called, name being None or the
\* name of a mapping
AskedObjectivesOf(id, name) ==
    /\ pc = "ready"
    /\ ret.op = "get_objectives_for_technique"
    /\ ret.arg = [technique_id |-> id, mapping_name |-> name]

\* the objectives that a call with the mapping name reads
ObjectivesOf(name) ==
    LET active == IF name = None THEN current_mapping_name ELSE name
    IN IF active = None \/ ~LoadedMapping(objective_mappings, active) THEN <<>>
       ELSE objective_mappings[active][2]

\* the objectives of objs that list the id, as positions in objs
ListedAt(objs, id) ==
    {i \in 1..Len(objs) :
        \E k \in 1..Len(objs[i].techniques) : objs[i].techniques[k] = id}

\* the names of the objectives at the positions at, in the order of objs
NamesAt(objs, at) ==
    [n \in 1..Cardinality(at) |->
        objs[CHOOSE i \in at : Cardinality({j \in at : j <= i}) = n].name]

\* the one parent that the fallback consults: the lowest id among the loaded
\* techniques whose subtechniques hold id
ConsultedParent(id) == CHOOSE P \in Parents(id) : \A Q \in Parents(id) : P <= Q

\* C30: when no objective lists the queried id, the fallback consults one
\* parent only, the technique of the lowest id whose subtechniques hold the
\* queried id: the result is the names of the objectives that list that
\* parent, and is empty when none does, even if an objective lists another
\* technique that holds the id; an id that an objective lists gets the names
\* of the objectives that list it and none from its parent
C30_Theorem ==
    \A id \in HierarchyIds, name \in {None, "carrier.json"} :
        AskedObjectivesOf(id, name) =>
            LET objs == ObjectivesOf(name)
                own == ListedAt(objs, id)
            IN IF own # {} THEN ret.out = NamesAt(objs, own)
               ELSE IF Parents(id) = {} THEN ret.out = <<>>
               ELSE /\ ret.out = NamesAt(objs, ListedAt(objs, ConsultedParent(id)))
                    /\ ListedAt(objs, ConsultedParent(id)) = {} => ret.out = <<>>

\* techniques 1 and 2 both hold 3 as a subtechnique; an objective lists 2,
\* none lists 1 or 3, and the call for 3 returned nothing
C30_Witness ==
    /\ AskedObjectivesOf(3, None)
    /\ Parents(3) = {1, 2}
    /\ ListedAt(ObjectivesOf(None), 3) = {}
    /\ ListedAt(ObjectivesOf(None), 1) = {}
    /\ ListedAt(ObjectivesOf(None), 2) # {}
    /\ ret.out = <<>>

====
